---- MODULE Spec2Model ----
(***************************************************************************)
(* A model of the block graph engine of @foundry/context: the block graph  *)
(* (ContextGraph), the deterministic view (createContextView, mergeViews), *)
(* block hashing, the fork (ContextFork), the compaction of a view         *)
(* (compactView), the merging of queries (mergeQueries), the compilers for *)
(* Anthropic, OpenAI and Gemini, the codec registry (registerCodec) and    *)
(* the in-memory store (InMemoryStore).                                    *)
(*                                                                         *)
(* Conventions.  An optional value (a TypeScript `x?: T`) is a sequence of *)
(* length 0 (undefined) or 1 (the value).  A JavaScript array is a         *)
(* sequence.  A Map is modelled by its entries.  A hex string is the       *)
(* sequence of the values of its hex digits.                               *)
(***************************************************************************)
EXTENDS Integers, Sequences, FiniteSets, TLC

VARIABLES graph, last, views, out, forkOut, compacted, graphA, graphB, pendA, pendB, made, now,
          compiled, registry, store, deadlines, loaded

vars ==
  <<graph, last, views, out, forkOut, compacted, graphA, graphB, pendA, pendB, made, now, compiled,
    registry, store, deadlines, loaded>>

\* ------------------------------------------------------------------------
\* Optional values and small helpers
\* ------------------------------------------------------------------------

None == <<>>

Some(v) == <<v>>

IsDef(o) == Len(o) = 1

Val(o) == o[1]

\* x ?? d
OrElse(o, d) == IF IsDef(o) THEN Val(o) ELSE d

Range(s) == {s[i] : i \in 1..Len(s)}

\* Array.prototype.includes
Includes(s, x) == \E i \in 1..Len(s) : s[i] = x

\* Array.prototype.filter with a predicate given as the set of accepted elements' indices
RECURSIVE FilterIdx(_, _, _)
FilterIdx(s, keep, i) ==
  IF i > Len(s) THEN <<>>
  ELSE (IF i \in keep THEN <<s[i]>> ELSE <<>>) \o FilterIdx(s, keep, i + 1)

\* ------------------------------------------------------------------------
\* Block kinds, sensitivity levels
\* ------------------------------------------------------------------------

KIND_ORDER == <<"pinned", "reference", "memory", "state", "tool_output", "history", "turn">>

\* indexOf: zero-based index, -1 when absent
getKindIndex(kind) ==
  IF Includes(KIND_ORDER, kind)
  THEN (CHOOSE i \in 1..Len(KIND_ORDER) : KIND_ORDER[i] = kind) - 1
  ELSE -1

compareKinds(a, b) == getKindIndex(a) - getKindIndex(b)

SENSITIVITY_ORDER == [public |-> 0, internal |-> 1, restricted |-> 2]

SensitivityLevels == {"public", "internal", "restricted"}

compareSensitivity(a, b) == SENSITIVITY_ORDER[a] - SENSITIVITY_ORDER[b]

exceedsSensitivityLevel(level, maxLevel) == SENSITIVITY_ORDER[level] > SENSITIVITY_ORDER[maxLevel]

\* ------------------------------------------------------------------------
\* Hash strings and their comparison
\* ------------------------------------------------------------------------

\* String.prototype.localeCompare on lower-case hex strings: digit by digit,
\* a proper prefix first.  Result is negative, zero or positive.
RECURSIVE LocaleCompareFrom(_, _, _)
LocaleCompareFrom(a, b, i) ==
  IF i > Len(a) /\ i > Len(b) THEN 0
  ELSE IF i > Len(a) THEN -1
  ELSE IF i > Len(b) THEN 1
  ELSE IF a[i] < b[i] THEN -1
  ELSE IF a[i] > b[i] THEN 1
  ELSE LocaleCompareFrom(a, b, i + 1)

localeCompare(a, b) == LocaleCompareFrom(a, b, 1)

\* The hashes of the blocks the callers hand to the graph: "1a", "0f", "a0", "12".
HashA == <<1, 10>>

HashB == <<0, 15>>

HashC == <<10, 0>>

HashD == <<1, 2>>

PoolHashes == {HashA, HashB, HashC, HashD}

\* ------------------------------------------------------------------------
\* Blocks handed to the graph by callers
\* ------------------------------------------------------------------------

Meta(kind, sens, codecId, createdAt, source, tags) ==
  [kind |-> kind, sensitivity |-> sens, codecId |-> codecId, codecVersion |-> "1.0.0",
   createdAt |-> createdAt, source |-> source, tags |-> tags]

Block(hash, meta, payload) == [blockHash |-> hash, meta |-> meta, payload |-> payload]

PinnedPublic ==
  Block(HashA, Meta("pinned", "public", "system-rules", 1, Some("s1"), Some(<<"t1">>)), [text |-> "rules"])

\* the same content added at a later time from another source: same hash
PinnedPublicLater ==
  Block(HashA, Meta("pinned", "public", "system-rules", 2, None, None), [text |-> "rules"])

StateRestricted ==
  Block(HashB, Meta("state", "restricted", "test", 1, None, None), [text |-> "secret-state"])

HistoryInternal ==
  Block(HashC, Meta("history", "internal", "conversation-history", 1, Some("s1"), None), [text |-> "old-talk"])

HistoryPublic ==
  Block(HashD, Meta("history", "public", "conversation-history", 2, None, Some(<<"t1">>)), [text |-> "talk"])

BlockPool == {PinnedPublic, PinnedPublicLater, StateRestricted, HistoryInternal, HistoryPublic}

BlockRef(h) == [blockHash |-> h]

\* the (derivedFrom?, references?) argument pairs of addBlock that are tried
EdgeArgs ==
  { <<None, None>>,
    <<Some(<<>>), Some(<<>>)>>,
    <<Some(<<BlockRef(HashB)>>), None>>,
    <<Some(<<BlockRef(HashB), BlockRef(HashD)>>), Some(<<HashA>>)>> }

\* ------------------------------------------------------------------------
\* ContextGraph
\* ------------------------------------------------------------------------

\* constructor
EmptyGraph == [blocks |-> <<>>, edges |-> [derivedFrom |-> <<>>, references |-> <<>>]]

\* Map.get on a sequence of <<key, value>> entries
HasKey(m, k) == \E i \in 1..Len(m) : m[i][1] = k

MapGet(m, k) == m[CHOOSE i \in 1..Len(m) : m[i][1] = k][2]

\* Map.set: a new key is appended, an existing key keeps its place
MapSet(m, k, v) ==
  IF HasKey(m, k)
  THEN [i \in 1..Len(m) |-> IF m[i][1] = k THEN <<k, v>> ELSE m[i]]
  ELSE Append(m, <<k, v>>)

\* Map.delete
MapDelete(m, k) == FilterIdx(m, {i \in 1..Len(m) : m[i][1] # k}, 1)

hasBlock(g, blockHash) == HasKey(g.blocks, blockHash)

getBlock(g, blockHash) == IF HasKey(g.blocks, blockHash) THEN Some(MapGet(g.blocks, blockHash)) ELSE None

\* Array.from(this.blocks.values()): insertion order
getAllBlocks(g) == [i \in 1..Len(g.blocks) |-> g.blocks[i][2]]

getBlockCount(g) == Len(g.blocks)

getDerivedFrom(g, blockHash) ==
  IF HasKey(g.edges.derivedFrom, blockHash) THEN MapGet(g.edges.derivedFrom, blockHash) ELSE <<>>

getReferences(g, blockHash) ==
  IF HasKey(g.edges.references, blockHash) THEN MapGet(g.edges.references, blockHash) ELSE <<>>

getStats(g) ==
  [blockCount |-> Len(g.blocks),
   derivationEdgeCount |-> Len(g.edges.derivedFrom),
   referenceEdgeCount |-> Len(g.edges.references)]

\* a plausible slip: the idempotence test is missing, the last write wins
addBlockLastWins(g, block, derivedFrom, references) ==
  [blocks |-> MapSet(g.blocks, block.blockHash, block),
   edges |->
     [derivedFrom |->
        IF IsDef(derivedFrom) /\ Len(Val(derivedFrom)) > 0
        THEN MapSet(g.edges.derivedFrom, block.blockHash, Val(derivedFrom))
        ELSE g.edges.derivedFrom,
      references |->
        IF IsDef(references) /\ Len(Val(references)) > 0
        THEN MapSet(g.edges.references, block.blockHash, Val(references))
        ELSE g.edges.references]]

addBlock(g, block, derivedFrom, references) ==
  IF hasBlock(g, block.blockHash)
  THEN g
  ELSE [blocks |-> MapSet(g.blocks, block.blockHash, block),
        edges |->
          [derivedFrom |->
             IF IsDef(derivedFrom) /\ Len(Val(derivedFrom)) > 0
             THEN MapSet(g.edges.derivedFrom, block.blockHash, Val(derivedFrom))
             ELSE g.edges.derivedFrom,
           references |->
             IF IsDef(references) /\ Len(Val(references)) > 0
             THEN MapSet(g.edges.references, block.blockHash, Val(references))
             ELSE g.edges.references]]

\* a plausible slip: the clean-up also strips the removed hash from the other
\* blocks' edge lists
removeBlockRewriting(g, blockHash) ==
  LET strip(m, refOf(_)) ==
        [i \in 1..Len(m) |->
           <<m[i][1], FilterIdx(m[i][2], {j \in 1..Len(m[i][2]) : refOf(m[i][2][j]) # blockHash}, 1)>>]
      byRef(r) == r.blockHash
      byHash(h) == h
  IN [graph |->
        [blocks |-> MapDelete(g.blocks, blockHash),
         edges |->
           [derivedFrom |-> strip(MapDelete(g.edges.derivedFrom, blockHash), byRef),
            references |-> strip(MapDelete(g.edges.references, blockHash), byHash)]],
      existed |-> hasBlock(g, blockHash)]

\* returns the graph after the call and the returned flag
removeBlock(g, blockHash) ==
  [graph |->
     [blocks |-> MapDelete(g.blocks, blockHash),
      edges |->
        [derivedFrom |-> MapDelete(g.edges.derivedFrom, blockHash),
         references |-> MapDelete(g.edges.references, blockHash)]],
   existed |-> hasBlock(g, blockHash)]

clear(g) == EmptyGraph

\* ------------------------------------------------------------------------
\* BlockQuery
\* ------------------------------------------------------------------------

\* {} : every criterion absent
emptyQuery ==
  [kinds |-> None, tags |-> None, minSensitivity |-> None, maxSensitivity |-> None,
   source |-> None, minCreatedAt |-> None, maxCreatedAt |-> None,
   derivedFromAny |-> None, notDerivedFromAny |-> None, referencesAny |-> None,
   excludeHashes |-> None, maxTokens |-> None]

\* query.f && query.f.length > 0
NonEmpty(o) == IsDef(o) /\ Len(Val(o)) > 0

matchesQuery(block, query, g) ==
  LET parentHashes == {p.blockHash : p \in Range(getDerivedFrom(g, block.blockHash))}
      refSet == Range(getReferences(g, block.blockHash))
      blockTags == Range(OrElse(block.meta.tags, <<>>))
  IN
  /\ NonEmpty(query.kinds) => Includes(Val(query.kinds), block.meta.kind)
  /\ NonEmpty(query.tags) => \A i \in 1..Len(Val(query.tags)) : Val(query.tags)[i] \in blockTags
  /\ IsDef(query.minSensitivity) =>
       ~(compareSensitivity(block.meta.sensitivity, Val(query.minSensitivity)) < 0)
  /\ IsDef(query.maxSensitivity) =>
       ~(compareSensitivity(block.meta.sensitivity, Val(query.maxSensitivity)) > 0)
  /\ IsDef(query.source) => block.meta.source = query.source
  /\ IsDef(query.minCreatedAt) => ~(block.meta.createdAt < Val(query.minCreatedAt))
  /\ IsDef(query.maxCreatedAt) => ~(block.meta.createdAt > Val(query.maxCreatedAt))
  /\ NonEmpty(query.derivedFromAny) =>
       \E i \in 1..Len(Val(query.derivedFromAny)) : Val(query.derivedFromAny)[i] \in parentHashes
  /\ NonEmpty(query.notDerivedFromAny) =>
       ~(\E i \in 1..Len(Val(query.notDerivedFromAny)) : Val(query.notDerivedFromAny)[i] \in parentHashes)
  /\ NonEmpty(query.referencesAny) =>
       \E i \in 1..Len(Val(query.referencesAny)) : Val(query.referencesAny)[i] \in refSet
  /\ NonEmpty(query.excludeHashes) => ~Includes(Val(query.excludeHashes), block.blockHash)

\* [...(merged.f ?? []), ...query.f] when query.f is given
Concatenated(mergedField, queryField) ==
  IF IsDef(queryField) THEN Some(OrElse(mergedField, <<>>) \o Val(queryField)) ELSE mergedField

HigherSensitivity(m, q) == IF compareSensitivity(q, m) > 0 THEN q ELSE m

LowerSensitivity(m, q) == IF compareSensitivity(q, m) < 0 THEN q ELSE m

MathMax(a, b) == IF a >= b THEN a ELSE b

MathMin(a, b) == IF a <= b THEN a ELSE b

\* the more restrictive of two optional bounds, `rule` naming the choice
\* between two that are given
Tighter(mergedField, queryField, rule) ==
  IF ~IsDef(queryField) THEN mergedField
  ELSE IF ~IsDef(mergedField) THEN queryField
  ELSE LET m == Val(mergedField)
           q == Val(queryField)
       IN Some(CASE rule = "higher" -> HigherSensitivity(m, q)
                 [] rule = "lower" -> LowerSensitivity(m, q)
                 [] rule = "max" -> MathMax(m, q)
                 [] OTHER -> MathMin(m, q))

\* the body of the loop of mergeQueries
MergeQuery(merged, query) ==
  LET kinds == IF ~IsDef(query.kinds) THEN merged.kinds
               ELSE IF IsDef(merged.kinds)
               THEN Some(FilterIdx(Val(query.kinds),
                                   {i \in 1..Len(Val(query.kinds)) :
                                      Val(query.kinds)[i] \in Range(Val(merged.kinds))}, 1))
               ELSE query.kinds
      conflict == /\ IsDef(query.source)
                  /\ IsDef(merged.source)
                  /\ merged.source # query.source
  IN [kinds |-> IF conflict THEN Some(<<>>) ELSE kinds,
      tags |-> Concatenated(merged.tags, query.tags),
      minSensitivity |-> Tighter(merged.minSensitivity, query.minSensitivity, "higher"),
      maxSensitivity |-> Tighter(merged.maxSensitivity, query.maxSensitivity, "lower"),
      source |-> IF IsDef(query.source) /\ ~conflict THEN query.source ELSE merged.source,
      minCreatedAt |-> Tighter(merged.minCreatedAt, query.minCreatedAt, "max"),
      maxCreatedAt |-> Tighter(merged.maxCreatedAt, query.maxCreatedAt, "min"),
      derivedFromAny |-> Concatenated(merged.derivedFromAny, query.derivedFromAny),
      notDerivedFromAny |-> Concatenated(merged.notDerivedFromAny, query.notDerivedFromAny),
      referencesAny |-> Concatenated(merged.referencesAny, query.referencesAny),
      excludeHashes |-> Concatenated(merged.excludeHashes, query.excludeHashes),
      maxTokens |-> Tighter(merged.maxTokens, query.maxTokens, "min")]

RECURSIVE MergeQueryLoop(_, _, _)
MergeQueryLoop(queries, i, merged) ==
  IF i > Len(queries) THEN merged
  ELSE MergeQueryLoop(queries, i + 1, MergeQuery(merged, queries[i]))

\* mergeQueries(...queries)
mergeQueries(queries) == MergeQueryLoop(queries, 1, emptyQuery)

\* allBlocks.filter(matchesQuery): insertion order
select(g, query) ==
  LET all == getAllBlocks(g)
  IN FilterIdx(all, {i \in 1..Len(all) : matchesQuery(all[i], query, g)}, 1)

\* the queries that are tried
Queries ==
  { emptyQuery,
    [emptyQuery EXCEPT !.kinds = Some(<<"history", "pinned">>)],
    [emptyQuery EXCEPT !.tags = Some(<<"t1">>)],
    [emptyQuery EXCEPT !.maxSensitivity = Some("internal"), !.minCreatedAt = Some(2)],
    [emptyQuery EXCEPT !.source = Some("s1")],
    [emptyQuery EXCEPT !.derivedFromAny = Some(<<HashB>>)],
    [emptyQuery EXCEPT !.notDerivedFromAny = Some(<<HashD>>), !.excludeHashes = Some(<<HashC>>)],
    [emptyQuery EXCEPT !.referencesAny = Some(<<HashA>>)] }

\* ------------------------------------------------------------------------
\* SHA-256 and the serialization it is applied to
\* ------------------------------------------------------------------------

\* createHash('sha256').update(text).digest('hex'), taken as collision-free:
\* the digest of a text is modelled by the text itself, a digit string.
Sha256(text) == text

\* the code of '|' in a joined text
Bar == <<16>>

\* blocks.map((b) => b.blockHash).join('|')
RECURSIVE JoinHashes(_, _)
JoinHashes(blocks, i) ==
  IF i > Len(blocks) THEN <<>>
  ELSE blocks[i].blockHash \o (IF i < Len(blocks) THEN Bar ELSE <<>>) \o JoinHashes(blocks, i + 1)

\* ------------------------------------------------------------------------
\* Views
\* ------------------------------------------------------------------------

\* a plausible slip: the tiebreak on blockHash is left out (sortBlocksByKind)
CompareBlocksKindOnly(a, b) == compareKinds(a.meta.kind, b.meta.kind)

\* the comparator of sortBlocksDeterministic
CompareBlocks(a, b) ==
  LET kindCmp == compareKinds(a.meta.kind, b.meta.kind)
  IN IF kindCmp # 0 THEN kindCmp ELSE localeCompare(a.blockHash, b.blockHash)

\* stable insertion of x into a sorted sequence: after the last element that
\* does not compare greater
RECURSIVE InsertSorted(_, _)
InsertSorted(sorted, x) ==
  IF sorted = <<>> THEN <<x>>
  ELSE IF CompareBlocks(sorted[Len(sorted)], x) <= 0 THEN Append(sorted, x)
  ELSE Append(InsertSorted(SubSeq(sorted, 1, Len(sorted) - 1), x), sorted[Len(sorted)])

RECURSIVE SortFrom(_, _, _)
SortFrom(blocks, i, acc) ==
  IF i > Len(blocks) THEN acc ELSE SortFrom(blocks, i + 1, InsertSorted(acc, blocks[i]))

\* a plausible slip: the blocks are left in the order select returns them in
sortBlocksLeftAsSelected(blocks) == blocks

\* [...blocks].sort(comparator): Array.prototype.sort is stable
sortBlocksDeterministic(blocks) == SortFrom(blocks, 1, <<>>)

computeStablePrefixHash(blocks) == Sha256(JoinHashes(blocks, 1))

\* ---- token estimators (external collaborators) ----

\* "unit": one token per block, exact, estimate() is the sum.
\* "sized": tokens by kind and codec, low confidence, estimate() counts the
\*          separators of the joined text as well.
\* "failing": every call of estimate() or estimateBlock() throws.
Estimators == {"unit", "sized"}

EstimatorThrows(estimator) == estimator = "failing"

estimateBlock(estimator, block) ==
  IF estimator = "unit" THEN [tokens |-> 1, confidence |-> "exact"]
  ELSE [tokens |->
          IF block.meta.codecId = "redacted-stub" THEN 1
          ELSE IF block.meta.kind = "state" THEN 3
          ELSE IF block.meta.kind = "history" THEN 2
          ELSE 0,
        confidence |-> IF block.meta.kind = "state" THEN "high" ELSE "low"]

RECURSIVE SumTokens(_, _, _)
SumTokens(estimator, blocks, i) ==
  IF i > Len(blocks) THEN 0
  ELSE estimateBlock(estimator, blocks[i]).tokens + SumTokens(estimator, blocks, i + 1)

estimate(estimator, blocks) ==
  IF estimator = "unit" THEN [tokens |-> SumTokens(estimator, blocks, 1), confidence |-> "exact"]
  ELSE [tokens |-> SumTokens(estimator, blocks, 1) + (IF Len(blocks) > 1 THEN Len(blocks) - 1 ELSE 0),
        confidence |-> "low"]

\* the update of lowestConfidence in applyTokenBudget
TrackConfidence(lowest, c) ==
  IF c = "low" THEN "low"
  ELSE IF c = "high" /\ lowest = "exact" THEN "high"
  ELSE lowest

\* the loop of applyTokenBudget from block i on
RECURSIVE BudgetLoop(_, _, _, _, _, _, _)
BudgetLoop(blocks, estimator, maxTokens, i, totalTokens, lowestConfidence, includedBlocks) ==
  IF i > Len(blocks)
  THEN [blocks |-> includedBlocks,
        estimate |-> [tokens |-> totalTokens, confidence |-> lowestConfidence, truncated |-> FALSE]]
  ELSE LET blockEstimate == estimateBlock(estimator, blocks[i])
           projectedTotal == totalTokens + blockEstimate.tokens
       IN IF projectedTotal > maxTokens
          THEN [blocks |-> includedBlocks,
                estimate |-> [tokens |-> totalTokens, confidence |-> lowestConfidence, truncated |-> TRUE]]
          ELSE BudgetLoop(blocks, estimator, maxTokens, i + 1, projectedTotal,
                          TrackConfidence(lowestConfidence, blockEstimate.confidence),
                          Append(includedBlocks, blocks[i]))

\* a plausible slip: the block that crosses the budget is still included
RECURSIVE BudgetLoopLate(_, _, _, _, _, _, _)
BudgetLoopLate(blocks, estimator, maxTokens, i, totalTokens, lowestConfidence, includedBlocks) ==
  IF i > Len(blocks)
  THEN [blocks |-> includedBlocks,
        estimate |-> [tokens |-> totalTokens, confidence |-> lowestConfidence, truncated |-> FALSE]]
  ELSE LET blockEstimate == estimateBlock(estimator, blocks[i])
           projectedTotal == totalTokens + blockEstimate.tokens
       IN IF totalTokens > maxTokens
          THEN [blocks |-> includedBlocks,
                estimate |-> [tokens |-> totalTokens, confidence |-> lowestConfidence, truncated |-> TRUE]]
          ELSE BudgetLoopLate(blocks, estimator, maxTokens, i + 1, projectedTotal,
                              TrackConfidence(lowestConfidence, blockEstimate.confidence),
                              Append(includedBlocks, blocks[i]))

applyTokenBudgetLate(blocks, estimator, maxTokens) ==
  BudgetLoopLate(blocks, estimator, maxTokens, 1, 0, "exact", <<>>)

applyTokenBudget(blocks, estimator, maxTokens) ==
  BudgetLoop(blocks, estimator, maxTokens, 1, 0, "exact", <<>>)

\* ViewOptions: {query?, tokenEstimator?, maxTokens?}
ViewOptions(query, tokenEstimator, maxTokens) ==
  [query |-> query, tokenEstimator |-> tokenEstimator, maxTokens |-> maxTokens]

\* The view's createdAt (the wall clock at creation) is not modelled: no
\* operation of the library reads it.
createContextView(g, options) ==
  LET query == OrElse(options.query, emptyQuery)
      sorted == sortBlocksDeterministic(select(g, query))
      budgeted == applyTokenBudget(sorted, Val(options.tokenEstimator), Val(options.maxTokens))
      selectedBlocks ==
        IF IsDef(options.tokenEstimator) /\ IsDef(options.maxTokens) THEN budgeted.blocks ELSE sorted
      tokenEstimate ==
        IF IsDef(options.tokenEstimator) /\ IsDef(options.maxTokens) THEN Some(budgeted.estimate)
        ELSE IF IsDef(options.tokenEstimator)
        THEN LET e == estimate(Val(options.tokenEstimator), sorted)
             IN Some([tokens |-> e.tokens, confidence |-> e.confidence, truncated |-> FALSE])
        ELSE None
  IN [blocks |-> selectedBlocks,
      tokenEstimate |-> tokenEstimate,
      stablePrefixHash |-> computeStablePrefixHash(selectedBlocks)]

\* the loop of mergeViews over the blocks of the views, first occurrence wins
RECURSIVE MergeLoop(_, _, _, _)
MergeLoop(vs, v, i, mergedBlocks) ==
  IF v > Len(vs) THEN mergedBlocks
  ELSE IF i > Len(vs[v].blocks) THEN MergeLoop(vs, v + 1, 1, mergedBlocks)
  ELSE IF \E j \in 1..Len(mergedBlocks) : mergedBlocks[j].blockHash = vs[v].blocks[i].blockHash
       THEN MergeLoop(vs, v, i + 1, mergedBlocks)
       ELSE MergeLoop(vs, v, i + 1, Append(mergedBlocks, vs[v].blocks[i]))

\* mergeViews(...views)
mergeViews(vs) ==
  LET sortedBlocks == sortBlocksDeterministic(MergeLoop(vs, 1, 1, <<>>))
  IN [blocks |-> sortedBlocks,
      tokenEstimate |-> None,
      stablePrefixHash |-> computeStablePrefixHash(sortedBlocks)]

\* ------------------------------------------------------------------------
\* Serialization of block content (JSON.stringify) as digit strings
\* ------------------------------------------------------------------------

\* the strings that occur in payloads and metadata, by position
StringTable ==
  <<"rules", " rules ", "other", "secret-state", "old-talk", "talk", "[REDACTED]",
    "[REDACTED - Sensitive content removed]", "agent-1", "agent-2", "s1", "t1", "fork-result",
    "openai", "anthropic", "ok", "error", "gpt-5-nano",
    "do-task", "done", "strip", "passthrough", "strict", "none",
    "s1:summarized", "unknown:summarized", "summarized", "s1:compacted", "unknown:compacted",
    "compacted:tool_output_prune", "compacted:summarize_history", "s1:compacted:compacted",
    "unknown:compacted:compacted">>

JsonString(str) == <<CHOOSE i \in 1..Len(StringTable) : StringTable[i] = str>>

CodecIds ==
  <<"system-rules", "conversation-history", "tool-output", "redacted-stub", "user-turn",
    "fork-result", "test">>

JsonCodecId(codecId) == <<CHOOSE i \in 1..Len(CodecIds) : CodecIds[i] = codecId>>

\* String.prototype.trim on the strings of the table
Trim(str) == IF str = " rules " THEN "rules" ELSE str

JsonBool(b) == IF b THEN <<1>> ELSE <<0>>

\* JSON.stringify of an object of string values, as the sequence of its
\* characters; an object is a sequence of <<key, value>> entries, a string a
\* sequence of characters
JsonText(str) == <<"\"">> \o str \o <<"\"">>

RECURSIVE JsonEntries(_, _)
JsonEntries(obj, i) ==
  IF i > Len(obj) THEN <<>>
  ELSE (IF i > 1 THEN <<",">> ELSE <<>>)
       \o JsonText(obj[i][1]) \o <<":">> \o JsonText(obj[i][2])
       \o JsonEntries(obj, i + 1)

JsonStringify(obj) == <<"{">> \o JsonEntries(obj, 1) \o <<"}">>

\* the characters that occur in outputs, by position
CharTable == <<"o", "k", "p", "w", "x", "f", "{", "}", "\"", ":", ",">>

CharCode(c) == CHOOSE i \in 1..Len(CharTable) : CharTable[i] = c

\* a character string as a digit string
Codes(text) == [i \in 1..Len(text) |-> CharCode(text[i])]

\* hashes.join('|')
RECURSIVE JoinDigits(_, _)
JoinDigits(hashes, i) ==
  IF i > Len(hashes) THEN <<>>
  ELSE hashes[i] \o (IF i < Len(hashes) THEN Bar ELSE <<>>) \o JoinDigits(hashes, i + 1)

\* JSON.stringify of a payload, by the payload's shape; JSON.stringify drops
\* the keys whose value is undefined
JsonPayload(p) ==
  IF DOMAIN p = {"originalBlockHash", "reason", "placeholder"}
  THEN <<1>> \o p.originalBlockHash \o Bar
       \o <<SENSITIVITY_ORDER[p.reason.level], SENSITIVITY_ORDER[p.reason.max]>>
       \o (IF IsDef(p.placeholder) THEN JsonString(Val(p.placeholder)) ELSE <<0>>)
  ELSE IF DOMAIN p = {"text", "priority", "cacheable"}
  THEN <<2>> \o JsonString(p.text)
       \o (IF IsDef(p.priority) THEN <<1 + Val(p.priority)>> ELSE <<0>>)
       \o (IF IsDef(p.cacheable) THEN <<1>> \o JsonBool(Val(p.cacheable)) ELSE <<0>>)
  ELSE IF DOMAIN p = {"text"}
  THEN <<3>> \o JsonString(p.text)
  ELSE IF DOMAIN p = {"output", "error", "status", "_truncated"}
  THEN <<4>> \o p.output \o Bar \o JsonBool(p.error) \o JsonString(p.status)
       \o JsonBool(p._truncated)
  ELSE IF DOMAIN p = {"summary", "originalBlockCount", "summarizedAt"}
  THEN <<6>> \o JsonString(p.summary) \o <<p.originalBlockCount, p.summarizedAt>>
  ELSE <<5>> \o JsonString(p.agentId) \o JsonString(p.model.provider) \o JsonString(p.model.model)
       \o JsonString(p.summary) \o Codes(JsonStringify(p.output)) \o Bar
       \o (IF IsDef(p.citations) THEN <<1>> \o JoinDigits(Val(p.citations), 1) ELSE <<0>>) \o Bar
       \o <<p.usage.inputTokens, p.usage.outputTokens, p.usage.totalTokens>>
       \o p.provenance.sourceViewHash \o Bar \o p.provenance.executionHash \o Bar
       \o <<p.provenance.forkedAt, p.provenance.completedAt>>

\* extractStableMetaSubset
extractStableMetaSubset(meta) ==
  [kind |-> meta.kind, sensitivity |-> meta.sensitivity,
   codecId |-> meta.codecId, codecVersion |-> meta.codecVersion]

\* JSON.stringify of a StableMetaSubset (every codecVersion is "1.0.0")
JsonStableMeta(m) ==
  <<getKindIndex(m.kind), SENSITIVITY_ORDER[m.sensitivity]>> \o JsonCodecId(m.codecId)

\* JSON.stringify of a full BlockMeta
JsonFullMeta(m) ==
  JsonStableMeta(m) \o <<m.createdAt>>
  \o (IF IsDef(m.source) THEN JsonString(Val(m.source)) ELSE <<0>>)
  \o (IF IsDef(m.tags)
      THEN <<1 + Len(Val(m.tags))>> \o
           (IF Len(Val(m.tags)) > 0 THEN JsonString(Val(m.tags)[1]) ELSE <<>>) \o
           (IF Len(Val(m.tags)) > 1 THEN JsonString(Val(m.tags)[2]) ELSE <<>>)
      ELSE <<0>>)

\* JSON.stringify({ meta, payload }): the code of '{"meta":' first, which no
\* serialized payload starts with
JsonCombined(metaText, payloadText) == <<15>> \o metaText \o Bar \o payloadText

\* ---- codecs ----

RedactedStubCodec == [codecId |-> "redacted-stub", version |-> "1.0.0"]

SystemRulesCodec == [codecId |-> "system-rules", version |-> "1.0.0"]

UserTurnCodec == [codecId |-> "user-turn", version |-> "1.0.0"]

\* codec.canonicalize(payload) of the codecs above
canonicalize(codec, payload) ==
  IF codec.codecId = "redacted-stub"
  THEN [originalBlockHash |-> payload.originalBlockHash, reason |-> payload.reason,
        placeholder |-> Some(OrElse(payload.placeholder, "[REDACTED]"))]
  ELSE IF codec.codecId = "system-rules"
  THEN [text |-> Trim(payload.text), priority |-> Some(OrElse(payload.priority, 0)),
        cacheable |-> Some(OrElse(payload.cacheable, FALSE))]
  ELSE [text |-> Trim(payload.text)]

\* defaultHash
defaultHash(canonicalized) == Sha256(JsonPayload(canonicalized))

\* computeBlockHash(meta, payload, codec?) ; codec is an optional value
computeBlockHash(meta, payload, codec) ==
  LET stableMeta == extractStableMetaSubset(meta)
      canonicalized == IF IsDef(codec) THEN canonicalize(Val(codec), payload) ELSE payload
  IN Sha256(JsonCombined(JsonStableMeta(stableMeta), JsonPayload(canonicalized)))

\* ------------------------------------------------------------------------
\* ContextFork
\* ------------------------------------------------------------------------

\* a plausible slip: the stub keeps the sensitivity of the block it stands for
createRedactedStubKeepingLevel(originalBlock, reason, time) ==
  LET payload == [originalBlockHash |-> originalBlock.blockHash,
                  reason |-> reason,
                  placeholder |-> Some("[REDACTED - Sensitive content removed]")]
      meta == [kind |-> originalBlock.meta.kind,
               sensitivity |-> originalBlock.meta.sensitivity,
               codecId |-> RedactedStubCodec.codecId,
               codecVersion |-> RedactedStubCodec.version,
               createdAt |-> time,
               source |-> originalBlock.meta.source,
               tags |-> originalBlock.meta.tags]
  IN [blockHash |-> computeBlockHash(meta, payload, Some(RedactedStubCodec)),
      meta |-> meta,
      payload |-> payload]

\* reason is the text "Sensitivity level '<level>' exceeds maximum '<max>'"
createRedactedStub(originalBlock, reason, time) ==
  LET payload == [originalBlockHash |-> originalBlock.blockHash,
                  reason |-> reason,
                  placeholder |-> Some("[REDACTED - Sensitive content removed]")]
      meta == [kind |-> originalBlock.meta.kind,
               sensitivity |-> "public",
               codecId |-> RedactedStubCodec.codecId,
               codecVersion |-> RedactedStubCodec.version,
               createdAt |-> time,
               source |-> originalBlock.meta.source,
               tags |-> originalBlock.meta.tags]
  IN [blockHash |-> computeBlockHash(meta, payload, Some(RedactedStubCodec)),
      meta |-> meta,
      payload |-> payload]

\* a plausible slip: the blocks above the maximum are dropped, not stubbed
filterBySensitivityDropping(view, maxSensitivity, time) ==
  FilterIdx(view.blocks,
            {i \in 1..Len(view.blocks) :
               ~exceedsSensitivityLevel(view.blocks[i].meta.sensitivity, maxSensitivity)}, 1)

\* view.blocks.map(...)
filterBySensitivity(view, maxSensitivity, time) ==
  [i \in 1..Len(view.blocks) |->
     IF exceedsSensitivityLevel(view.blocks[i].meta.sensitivity, maxSensitivity)
     THEN createRedactedStub(view.blocks[i],
                             [level |-> view.blocks[i].meta.sensitivity, max |-> maxSensitivity],
                             time)
     ELSE view.blocks[i]]

\* ContextForkOptions: includeHistory?, includeState?, maxSensitivity?, budgetOverride?
\* (agentId, name and model are on the options too)
ForkOptions(agentId, model, includeHistory, includeState, maxSensitivity, budgetOverride) ==
  [agentId |-> agentId, model |-> model, includeHistory |-> includeHistory,
   includeState |-> includeState, maxSensitivity |-> maxSensitivity,
   budgetOverride |-> budgetOverride]

\* JavaScript truthiness of an optional boolean
TruthyFlag(o) == IsDef(o) /\ Val(o)

\* JavaScript truthiness of an optional number
TruthyNumber(o) == IsDef(o) /\ Val(o) # 0

\* ContextFork.createFork, for the ContextFork built on (graph, parentView)
createFork(parentView, options, time) ==
  LET maxSensitivity == OrElse(options.maxSensitivity, "public")
      filteredBlocks == filterBySensitivity(parentView, maxSensitivity, time)
      noHistory ==
        IF ~TruthyFlag(options.includeHistory)
        THEN FilterIdx(filteredBlocks,
                       {i \in 1..Len(filteredBlocks) : filteredBlocks[i].meta.kind # "history"}, 1)
        ELSE filteredBlocks
      finalBlocks ==
        IF ~TruthyFlag(options.includeState)
        THEN FilterIdx(noHistory, {i \in 1..Len(noHistory) : noHistory[i].meta.kind # "state"}, 1)
        ELSE noHistory
  IN [blocks |-> finalBlocks,
      tokenEstimate |->
        IF TruthyNumber(options.budgetOverride)
        THEN Some([tokens |-> Val(options.budgetOverride), confidence |-> "high", truncated |-> FALSE])
        ELSE parentView.tokenEstimate,
      stablePrefixHash |-> Sha256(JoinHashes(finalBlocks, 1))]

\* ---- executeFork ----

\* String.prototype.includes
StrIncludes(str, field) ==
  \E i \in 0..(Len(str) - Len(field)) : SubSeq(str, i + 1, i + Len(field)) = field

\* task.expectedOutputSchema.parse(output) for an object schema of string
\* fields: [keys, unknownKeys], unknownKeys one of "strip", "passthrough",
\* "strict". The output is an optional object (None: the executor returned no
\* object). The result is [ok, value]; ok = FALSE is a thrown ZodError.
SchemaParse(schema, output) ==
  IF ~IsDef(output) THEN [ok |-> FALSE, value |-> <<>>]
  ELSE LET obj == Val(output)
           keysOf == {obj[i][1] : i \in 1..Len(obj)}
           known == {i \in 1..Len(obj) : Includes(schema.keys, obj[i][1])}
       IN IF \E k \in Range(schema.keys) : k \notin keysOf
          THEN [ok |-> FALSE, value |-> <<>>]
          ELSE IF schema.unknownKeys = "strict" /\ known # 1..Len(obj)
          THEN [ok |-> FALSE, value |-> <<>>]
          ELSE IF schema.unknownKeys = "strip"
          THEN [ok |-> TRUE, value |-> FilterIdx(obj, known, 1)]
          ELSE [ok |-> TRUE, value |-> obj]

\* schema.keys joined, the description of the schema
RECURSIVE JoinTexts(_, _)
JoinTexts(texts, i) ==
  IF i > Len(texts) THEN <<>>
  ELSE texts[i] \o (IF i < Len(texts) THEN <<",">> ELSE <<>>) \o JoinTexts(texts, i + 1)

\* computeSchemaHash: the hash of the schema's description
computeSchemaHash(schema) ==
  Sha256(Codes(JoinTexts(schema.keys, 1)) \o Bar \o JsonString(schema.unknownKeys))

\* computeExecutionHash(model, viewHash, instruction, schemaHash) ;
\* toolsetVersion is never passed and reads 'none'
computeExecutionHash(model, viewHash, instruction, schemaHash) ==
  Sha256(JsonString(model.provider) \o JsonString(model.model) \o viewHash \o Bar
         \o JsonString(instruction) \o schemaHash \o Bar \o JsonString("none"))

\* SubAgentTask: {instruction, expectedOutputSchema, forbiddenFields?}
Task(instruction, expectedOutputSchema, forbiddenFields) ==
  [instruction |-> instruction, expectedOutputSchema |-> expectedOutputSchema,
   forbiddenFields |-> forbiddenFields]

\* what one call of the executor does: it throws, or it returns
\* {output, summary, citations?, usage}
ExecutorOutcome(threw, output, summary, citations, usage) ==
  [threw |-> threw, output |-> output, summary |-> summary, citations |-> citations,
   usage |-> usage]

Raised(error) == [status |-> "raised", error |-> error, result |-> None]

Returned(result) == [status |-> "returned", error |-> "", result |-> Some(result)]

\* a plausible slip: the forbidden fields are looked for among the keys of
\* the output only
ForbiddenFieldFoundInKeys(validatedOutput, forbiddenFields) ==
  \E f \in 1..Len(forbiddenFields) :
    \E i \in 1..Len(validatedOutput) : validatedOutput[i][1] = forbiddenFields[f]

\* the loop over task.forbiddenFields: outputStr.includes(field)
ForbiddenFieldFound(validatedOutput, forbiddenFields) ==
  \E f \in 1..Len(forbiddenFields) :
    StrIncludes(JsonStringify(validatedOutput), forbiddenFields[f])

\* ContextFork.executeFork(task, options, executor), for the ContextFork built
\* on (graph, parentView); forkedAt and completedAt are the two clock readings
executeFork(parentView, task, options, executor, forkedAt, completedAt) ==
  LET forkedView == createFork(parentView, options, forkedAt)
      checked == IsDef(task.forbiddenFields) /\ Len(Val(task.forbiddenFields)) > 0
      parsed == SchemaParse(task.expectedOutputSchema, executor.output)
      executionHash ==
        computeExecutionHash(options.model, forkedView.stablePrefixHash, task.instruction,
                             computeSchemaHash(task.expectedOutputSchema))
  IN IF executor.threw THEN Raised("ExecutorError")
     ELSE IF ~parsed.ok THEN Raised("ZodError")
     ELSE IF checked /\ ForbiddenFieldFound(parsed.value, Val(task.forbiddenFields))
     THEN Raised("ForbiddenFieldLeak")
     ELSE Returned([agentId |-> options.agentId,
                    model |-> options.model,
                    summary |-> executor.summary,
                    output |-> parsed.value,
                    citations |-> executor.citations,
                    usage |-> executor.usage,
                    provenance |-> [sourceViewHash |-> parentView.stablePrefixHash,
                                    executionHash |-> executionHash,
                                    forkedAt |-> forkedAt,
                                    completedAt |-> completedAt]])

\* ContextFork.ingestForkResult(result, asMemory): the block it builds and
\* the graph after graph.addBlock(block, derivedFrom)
ingestForkResult(g, result, asMemory, time) ==
  LET payload == [agentId |-> result.agentId, model |-> result.model,
                  summary |-> result.summary, output |-> result.output,
                  citations |-> result.citations, usage |-> result.usage,
                  provenance |-> result.provenance]
      meta == [kind |-> IF asMemory THEN "memory" ELSE "reference",
               sensitivity |-> "public",
               codecId |-> "fork-result",
               codecVersion |-> "1.0.0",
               createdAt |-> time,
               source |-> Some(result.agentId),
               tags |-> Some(<<"fork-result", result.model.provider>>)]
      blockHash == Sha256(JsonCombined(JsonFullMeta(meta), JsonPayload(payload)))
      block == [blockHash |-> blockHash, meta |-> meta, payload |-> payload]
      derivedFrom ==
        IF IsDef(result.citations)
        THEN [i \in 1..Len(Val(result.citations)) |-> BlockRef(Val(result.citations)[i])]
        ELSE <<>>
  IN [graph |-> addBlock(g, block, Some(derivedFrom), None),
      blockHash |-> blockHash,
      block |-> block]

\* ---- ContextBuilder ----

\* codec.hash(canonicalized): SystemRulesCodec and RedactedStubCodec hash with
\* defaultHash; the codec that turn() builds hashes with computeBlockHash on
\* fixed metadata
CodecHash(codec, canonicalized) ==
  IF codec.codecId = "user-turn"
  THEN computeBlockHash([kind |-> "turn", sensitivity |-> "public", codecId |-> "user-turn",
                         codecVersion |-> "1.0.0"], canonicalized, None)
  ELSE defaultHash(canonicalized)

\* the options of the builder's methods: {sensitivity?, source?, tags?}
BlockOptions(sensitivity, source, tags) ==
  [sensitivity |-> sensitivity, source |-> source, tags |-> tags]

\* ContextBuilder.createBlock(kind, codec, payload, options)
createBlock(kind, codec, payload, options, time) ==
  [blockHash |-> CodecHash(codec, canonicalize(codec, payload)),
   meta |-> [kind |-> kind,
             sensitivity |-> OrElse(options.sensitivity, "public"),
             codecId |-> codec.codecId,
             codecVersion |-> codec.version,
             createdAt |-> time,
             source |-> options.source,
             tags |-> options.tags],
   payload |-> payload]

\* ------------------------------------------------------------------------
\* Compaction of a view (pipeline/summarizer.ts)
\* ------------------------------------------------------------------------

\* s.slice(-n) ; -0 is 0, so that slice(-0) is the whole array
SliceLast(s, n) == IF n = 0 \/ n >= Len(s) THEN s ELSE SubSeq(s, Len(s) - n + 1, Len(s))

\* s.slice(0, -n) ; slice(0, -0) is empty
SliceButLast(s, n) == IF n = 0 \/ n >= Len(s) THEN <<>> ELSE SubSeq(s, 1, Len(s) - n)

OfKind(blocks, kind) ==
  FilterIdx(blocks, {i \in 1..Len(blocks) : blocks[i].meta.kind = kind}, 1)

NotOfKind(blocks, kind) ==
  FilterIdx(blocks, {i \in 1..Len(blocks) : blocks[i].meta.kind # kind}, 1)

\* [...blocks].sort((a, b) => a.meta.createdAt - b.meta.createdAt), a stable sort
RECURSIVE InsertByCreatedAt(_, _)
InsertByCreatedAt(sorted, x) ==
  IF sorted = <<>> THEN <<x>>
  ELSE IF sorted[Len(sorted)].meta.createdAt <= x.meta.createdAt THEN Append(sorted, x)
  ELSE Append(InsertByCreatedAt(SubSeq(sorted, 1, Len(sorted) - 1), x), sorted[Len(sorted)])

RECURSIVE SortByCreatedAt(_, _, _)
SortByCreatedAt(blocks, i, acc) ==
  IF i > Len(blocks) THEN acc
  ELSE SortByCreatedAt(blocks, i + 1, InsertByCreatedAt(acc, blocks[i]))

\* the loop of deduplicateBlocks
RECURSIVE DedupeLoop(_, _, _, _, _)
DedupeLoop(blocks, i, seen, deduplicated, removed) ==
  IF i > Len(blocks) THEN [blocks |-> deduplicated, removed |-> removed]
  ELSE IF blocks[i].blockHash \in seen
  THEN DedupeLoop(blocks, i + 1, seen, deduplicated, Append(removed, blocks[i]))
  ELSE DedupeLoop(blocks, i + 1, seen \cup {blocks[i].blockHash},
                  Append(deduplicated, blocks[i]), removed)

\* a plausible slip: the last occurrence of a blockHash is the one kept
deduplicateBlocksKeepingLast(blocks) ==
  LET isLast == {i \in 1..Len(blocks) :
                   \A j \in (i + 1)..Len(blocks) : blocks[j].blockHash # blocks[i].blockHash}
  IN [blocks |-> FilterIdx(blocks, isLast, 1),
      removed |-> FilterIdx(blocks, (1..Len(blocks)) \ isLast, 1)]

deduplicateBlocks(blocks) == DedupeLoop(blocks, 1, {}, <<>>, <<>>)

\* truncateTail(text, maxChars): '... [truncated <n> chars] ...\n' and the
\* tail; the marker is the character 14 around the count
truncateTail(text, maxChars) ==
  IF Len(text) <= maxChars THEN text
  ELSE <<14, Len(text) - maxChars, 14>> \o SliceLast(text, maxChars)

\* `${original.meta.source ?? 'unknown'}:compacted`
CompactedSource(source) ==
  LET s == OrElse(source, "unknown")
  IN CASE s = "s1" -> "s1:compacted"
       [] s = "s1:compacted" -> "s1:compacted:compacted"
       [] s = "unknown" -> "unknown:compacted"
       [] OTHER -> "unknown:compacted:compacted"

\* `compacted:${method}`
CompactedTag(method) ==
  CASE method = "tool_output_prune" -> "compacted:tool_output_prune"
    [] OTHER -> "compacted:summarize_history"

\* createReplacementBlock(original, newPayload, method, version) ; the version
\* is not used by the code
createReplacementBlock(original, newPayload, method, version) ==
  [blockHash |-> computeBlockHash(original.meta, newPayload, None),
   meta |-> [original.meta EXCEPT
               !.source = Some(CompactedSource(original.meta.source)),
               !.tags = Some(Append(OrElse(original.meta.tags, <<>>), CompactedTag(method)))],
   payload |-> newPayload]

\* ToolOutputPruningConfig
PruningConfig(maxRawTailChars, preserveErrorTail, maxOutputsPerTool) ==
  [maxRawTailChars |-> maxRawTailChars, preserveErrorTail |-> preserveErrorTail,
   maxOutputsPerTool |-> maxOutputsPerTool]

DEFAULT_TOOL_OUTPUT_PRUNING == PruningConfig(500, TRUE, 3)

\* payload.output && typeof payload.output === 'string' && payload.output.length > max
IsLarge(payload, maxRawTailChars) ==
  /\ "output" \in DOMAIN payload
  /\ Len(payload.output) > maxRawTailChars

\* payload.error || payload.status === 'error'
IsError(payload) ==
  \/ "error" \in DOMAIN payload /\ payload.error
  \/ "status" \in DOMAIN payload /\ payload.status = "error"

\* the loop over toKeep of one tool
RECURSIVE PruneKeepLoop(_, _, _, _, _)
PruneKeepLoop(toKeep, config, i, kept, replaced) ==
  IF i > Len(toKeep) THEN [kept |-> kept, replaced |-> replaced]
  ELSE LET block == toKeep[i]
           payload == block.payload
       IN IF IsLarge(payload, config.maxRawTailChars)
             /\ (~IsError(payload) \/ ~config.preserveErrorTail)
          THEN LET truncatedPayload ==
                     [payload EXCEPT
                        !.output = truncateTail(payload.output, config.maxRawTailChars),
                        !._truncated = TRUE]
               IN PruneKeepLoop(toKeep, config, i + 1,
                                Append(kept, createReplacementBlock(block, truncatedPayload,
                                                                    "tool_output_prune",
                                                                    "1.0.0")),
                                Append(replaced, block))
          ELSE PruneKeepLoop(toKeep, config, i + 1, Append(kept, block), replaced)

\* the keys of byTool, in the order of their first block
RECURSIVE ToolIds(_, _, _)
ToolIds(toolOutputBlocks, i, acc) ==
  IF i > Len(toolOutputBlocks) THEN acc
  ELSE IF Includes(acc, toolOutputBlocks[i].meta.codecId)
  THEN ToolIds(toolOutputBlocks, i + 1, acc)
  ELSE ToolIds(toolOutputBlocks, i + 1, Append(acc, toolOutputBlocks[i].meta.codecId))

\* the loop over byTool.entries()
RECURSIVE PruneToolLoop(_, _, _, _, _, _, _)
PruneToolLoop(toolOutputBlocks, toolIds, config, t, kept, removed, replaced) ==
  IF t > Len(toolIds) THEN [kept |-> kept, removed |-> removed, replaced |-> replaced]
  ELSE LET toolBlocks ==
             FilterIdx(toolOutputBlocks,
                       {i \in 1..Len(toolOutputBlocks) :
                          toolOutputBlocks[i].meta.codecId = toolIds[t]}, 1)
           sorted == SortByCreatedAt(toolBlocks, 1, <<>>)
           toKeep == SliceLast(sorted, config.maxOutputsPerTool)
           toRemove == SliceButLast(sorted, config.maxOutputsPerTool)
           r == PruneKeepLoop(toKeep, config, 1, kept, replaced)
       IN PruneToolLoop(toolOutputBlocks, toolIds, config, t + 1,
                        r.kept, removed \o toRemove, r.replaced)

pruneToolOutputs(blocks, config) ==
  LET toolOutputBlocks == OfKind(blocks, "tool_output")
      otherBlocks == NotOfKind(blocks, "tool_output")
      r == PruneToolLoop(toolOutputBlocks, ToolIds(toolOutputBlocks, 1, <<>>), config,
                         1, <<>>, <<>>, <<>>)
  IN [blocks |-> otherBlocks \o r.kept, removed |-> r.removed, replaced |-> r.replaced]

\* payload.messages?.some((m) => m.error)
HasErrorMessage(payload) ==
  /\ "messages" \in DOMAIN payload
  /\ \E i \in 1..Len(payload.messages) : payload.messages[i].error

TrimConfig(keepRecentMessages, keepErrorMessages) ==
  [keepRecentMessages |-> keepRecentMessages, keepErrorMessages |-> keepErrorMessages]

trimHistory(blocks, config) ==
  LET historyBlocks == OfKind(blocks, "history")
      otherBlocks == NotOfKind(blocks, "history")
      sorted == SortByCreatedAt(historyBlocks, 1, <<>>)
      recent == SliceLast(sorted, config.keepRecentMessages)
      old == SliceButLast(sorted, config.keepRecentMessages)
      isKeptError == {i \in 1..Len(old) : config.keepErrorMessages /\ HasErrorMessage(old[i].payload)}
      errorMessages == FilterIdx(old, isKeptError, 1)
      removed == FilterIdx(old, {i \in 1..Len(old) : ~Includes(errorMessages, old[i])}, 1)
  IN IF Len(historyBlocks) = 0 THEN [blocks |-> blocks, removed |-> <<>>]
     ELSE [blocks |-> otherBlocks \o recent \o errorMessages, removed |-> removed]

\* `${firstBlock.meta.source ?? 'unknown'}:summarized`
SummarizedSource(source) ==
  LET s == OrElse(source, "unknown")
  IN CASE s = "s1" -> "s1:summarized"
       [] OTHER -> "unknown:summarized"

\* AnthropicSummarizer.summarize(blocks, targetTokens): the model's answer is
\* `summary`, Date.now() reads `time`; targetTokens only caps the answer
AnthropicSummarize(blocks, summary, time) ==
  LET summaryPayload == [summary |-> summary, originalBlockCount |-> Len(blocks),
                         summarizedAt |-> time]
      firstBlock == blocks[1]
      source == Some(SummarizedSource(firstBlock.meta.source))
  IN [blockHash |-> computeBlockHash([firstBlock.meta EXCEPT !.source = source],
                                     summaryPayload, None),
      meta |-> [firstBlock.meta EXCEPT
                  !.kind = "history",
                  !.source = source,
                  !.tags = Some(Append(OrElse(firstBlock.meta.tags, <<>>), "summarized")),
                  !.createdAt = time],
      payload |-> summaryPayload]

\* summarizer.summarize(old, targetTokens) of a HistorySummarizer: a caller's
\* own summarizer [threw, block] answers with its block, the library's
\* AnthropicSummarizer [threw, summary, at] builds one
Summarize(summarizer, blocks) ==
  IF "block" \in DOMAIN summarizer THEN summarizer.block
  ELSE AnthropicSummarize(blocks, summarizer.summary, summarizer.at)

\* PipelineCompactionConfig: {steps, toolOutputPruning?, historyTrim?, summarization?}
\* summarization is {minMessages, summarizer?}; a summarizer is what its
\* summarize call does
CompactionConfig(steps, toolOutputPruning, historyTrim, summarization) ==
  [steps |-> steps, toolOutputPruning |-> toolOutputPruning, historyTrim |-> historyTrim,
   summarization |-> summarization]

StepReport(step, blocksRemoved, blocksReplaced, tokensSaved, lossy) ==
  [step |-> step, blocksRemoved |-> blocksRemoved, blocksReplaced |-> blocksReplaced,
   tokensSaved |-> tokensSaved, lossy |-> lossy]

\* estimator.estimate(blocks) guarded by blocks.length > 0
EstimateOrZero(estimator, blocks) ==
  IF Len(blocks) > 0 THEN estimate(estimator, blocks).tokens ELSE 0

\* const keepCount = 10 in the summarize_history step
keepCount == 10

\* whether the step, run on st.blocks, reaches one of its awaited calls of the
\* estimator
CallsEstimator(st, step, config) ==
  IF step = "dedupe" THEN Len(deduplicateBlocks(st.blocks).removed) > 0
  ELSE IF step = "tool_output_prune"
  THEN \/ Len(OfKind(st.blocks, "tool_output")) > 0
       \/ Len(OfKind(pruneToolOutputs(st.blocks,
                                       OrElse(config.toolOutputPruning,
                                              DEFAULT_TOOL_OUTPUT_PRUNING)).blocks,
                     "tool_output")) > 0
  ELSE IF step = "history_trim"
  THEN Len(trimHistory(st.blocks, OrElse(config.historyTrim, TrimConfig(20, TRUE))).removed) > 0
  ELSE /\ IsDef(config.summarization)
       /\ IsDef(Val(config.summarization).summarizer)
       /\ Len(OfKind(st.blocks, "history")) >= Val(config.summarization).minMessages
       /\ Len(SliceButLast(OfKind(st.blocks, "history"), keepCount)) > 0

\* one step of the loop of compactView on st = [blocks, removedBlocks,
\* stepReports, threw]; nothing catches what the estimator or the summarizer
\* throws
CompactStep(st, step, config, estimator) ==
  IF EstimatorThrows(estimator) /\ CallsEstimator(st, step, config)
  THEN [st EXCEPT !.threw = TRUE]
  ELSE IF step = "dedupe"
  THEN LET result == deduplicateBlocks(st.blocks)
       IN [st EXCEPT !.blocks = result.blocks,
                     !.removedBlocks = @ \o result.removed,
                     !.stepReports = Append(@, StepReport(step, Len(result.removed), 0,
                                                          EstimateOrZero(estimator, result.removed),
                                                          FALSE))]
  ELSE IF step = "tool_output_prune"
  THEN LET pruningConfig == OrElse(config.toolOutputPruning, DEFAULT_TOOL_OUTPUT_PRUNING)
           beforeEstimate == EstimateOrZero(estimator, OfKind(st.blocks, "tool_output"))
           result == pruneToolOutputs(st.blocks, pruningConfig)
           afterEstimate == EstimateOrZero(estimator, OfKind(result.blocks, "tool_output"))
       IN [st EXCEPT !.blocks = result.blocks,
                     !.removedBlocks = @ \o result.removed,
                     !.stepReports = Append(@, StepReport(step, Len(result.removed),
                                                          Len(result.replaced),
                                                          beforeEstimate - afterEstimate,
                                                          Len(result.replaced) > 0))]
  ELSE IF step = "history_trim"
  THEN LET trimConfig == OrElse(config.historyTrim, TrimConfig(20, TRUE))
           result == trimHistory(st.blocks, trimConfig)
       IN [st EXCEPT !.blocks = result.blocks,
                     !.removedBlocks = @ \o result.removed,
                     !.stepReports = Append(@, StepReport(step, Len(result.removed), 0,
                                                          EstimateOrZero(estimator, result.removed),
                                                          Len(result.removed) > 0))]
  ELSE LET skipped == [st EXCEPT !.stepReports = Append(@, StepReport(step, 0, 0, 0, FALSE))]
           summaryConfig == config.summarization
           historyBlocks == OfKind(st.blocks, "history")
           recent == SliceLast(historyBlocks, keepCount)
           old == SliceButLast(historyBlocks, keepCount)
           summarizer == Val(Val(summaryConfig).summarizer)
           before == estimate(estimator, old).tokens
           summaryBlock == Summarize(summarizer, old)
           after == estimateBlock(estimator, summaryBlock).tokens
       IN IF ~IsDef(summaryConfig) \/ ~IsDef(Val(summaryConfig).summarizer) THEN skipped
          ELSE IF Len(historyBlocks) < Val(summaryConfig).minMessages THEN skipped
          ELSE IF Len(old) = 0 THEN skipped
          ELSE IF summarizer.threw THEN [st EXCEPT !.threw = TRUE]
          ELSE [st EXCEPT !.blocks = NotOfKind(st.blocks, "history") \o <<summaryBlock>> \o recent,
                          !.removedBlocks = @ \o old,
                          !.stepReports = Append(@, StepReport(step, Len(old), 1, before - after, TRUE))]

\* the loop over config.steps; a throw of the summarizer ends it
RECURSIVE CompactLoop(_, _, _, _)
CompactLoop(st, i, config, estimator) ==
  IF i > Len(config.steps) \/ st.threw THEN st
  ELSE CompactLoop(CompactStep(st, config.steps[i], config, estimator), i + 1, config, estimator)

\* compactView(view, config, estimator): [status, result], status "raised"
\* when the summarizer or the estimator threw (the promise is rejected)
compactView(view, config, estimator) ==
  LET st == CompactLoop([blocks |-> view.blocks, removedBlocks |-> <<>>, stepReports |-> <<>>,
                         threw |-> FALSE], 1, config, estimator)
      beforeTokens == IF IsDef(view.tokenEstimate) THEN Val(view.tokenEstimate).tokens ELSE 0
      afterTokens == EstimateOrZero(estimator, st.blocks)
  IN IF st.threw \/ (EstimatorThrows(estimator) /\ Len(st.blocks) > 0)
     THEN [status |-> "raised", result |-> None]
     ELSE [status |-> "returned",
           result |-> Some([blocks |-> st.blocks,
                            removedBlocks |-> st.removedBlocks,
                            report |-> [beforeTokens |-> beforeTokens,
                                        afterTokens |-> afterTokens,
                                        savedTokens |-> beforeTokens - afterTokens,
                                        stepsApplied |-> config.steps,
                                        stepReports |-> st.stepReports]])]

\* ------------------------------------------------------------------------
\* The codec registry (codecs/index.ts)
\* ------------------------------------------------------------------------

Codec(codecId, version) == [codecId |-> codecId, version |-> version]

\* BUILT_IN_CODECS: a plain object, modelled by its own entries
BUILT_IN_CODECS ==
  << <<"system-rules", SystemRulesCodec>>,
     <<"tool-schema", Codec("tool-schema", "1.0.0")>>,
     <<"structured-reference", Codec("structured-reference", "1.0.0")>>,
     <<"conversation-history", Codec("conversation-history", "1.0.0")>>,
     <<"tool-output", Codec("tool-output", "1.0.0")>>,
     <<"redacted-stub", RedactedStubCodec>>,
     <<"unsafe-text", Codec("unsafe-text", "1.0.0")>>,
     <<"user-turn", UserTurnCodec>> >>

\* names that every plain object inherits from Object.prototype: a lookup
\* under one of them gives a function, which is truthy
PrototypeKeys == {"toString", "constructor"}

\* BUILT_IN_CODECS[codecId] is truthy
Registered(reg, codecId) == HasKey(reg, codecId) \/ codecId \in PrototypeKeys

\* getCodec(codecId), for the names the object holds itself
getCodec(reg, codecId) == IF HasKey(reg, codecId) THEN Some(MapGet(reg, codecId)) ELSE None

\* a plausible slip: a second registration replaces the first
registerCodecReplacing(reg, codec) ==
  [threw |-> FALSE, registry |-> MapSet(reg, codec.codecId, codec)]

\* registerCodec(codec)
registerCodec(reg, codec) ==
  IF Registered(reg, codec.codecId)
  THEN [threw |-> TRUE, registry |-> reg]
  ELSE [threw |-> FALSE, registry |-> MapSet(reg, codec.codecId, codec)]

\* ------------------------------------------------------------------------
\* InMemoryStore (adapters/memory-store.ts)
\* ------------------------------------------------------------------------

\* constructor: blocks and ttls (blockHash -> expiresAt) are empty Maps
EmptyStore == [blocks |-> <<>>, ttls |-> <<>>]

\* MemorySaveOptions {ttl?, overwrite?}
SaveOptions(ttl, overwrite) == [ttl |-> ttl, overwrite |-> overwrite]

\* cleanupExpired(), the clock reading `time`
cleanupExpired(s, time) ==
  LET expiredHashes == {s.ttls[i][1] : i \in {j \in 1..Len(s.ttls) : s.ttls[j][2] <= time}}
  IN [blocks |-> FilterIdx(s.blocks, {i \in 1..Len(s.blocks) : s.blocks[i][1] \notin expiredHashes}, 1),
      ttls |-> FilterIdx(s.ttls, {i \in 1..Len(s.ttls) : s.ttls[i][1] \notin expiredHashes}, 1)]

\* save(block, options?) ; `options?.ttl` is falsy for 0
save(s, block, options, time) ==
  LET cleaned == cleanupExpired(s, time)
      overwrite == IsDef(options) /\ IsDef(Val(options).overwrite) /\ Val(Val(options).overwrite)
      ttlGiven == IsDef(options) /\ IsDef(Val(options).ttl) /\ Val(Val(options).ttl) # 0
  IN IF HasKey(cleaned.blocks, block.blockHash) /\ ~overwrite THEN cleaned
     ELSE [blocks |-> MapSet(cleaned.blocks, block.blockHash, block),
           ttls |-> IF ttlGiven
                    THEN MapSet(cleaned.ttls, block.blockHash, time + Val(Val(options).ttl))
                    ELSE MapDelete(cleaned.ttls, block.blockHash)]

\* what a read returns: the store after the cleanup and the result
Read(s, result) == [store |-> s, result |-> result]

\* load(blockHash)
load(s, blockHash, time) ==
  LET cleaned == cleanupExpired(s, time)
  IN Read(cleaned, IF HasKey(cleaned.blocks, blockHash)
                   THEN Some(MapGet(cleaned.blocks, blockHash)) ELSE None)

\* exists(blockHash)
exists(s, blockHash, time) ==
  LET cleaned == cleanupExpired(s, time)
  IN Read(cleaned, HasKey(cleaned.blocks, blockHash))

\* results.sort by createdAt, a stable sort: ascending, or descending
RECURSIVE StoreInsert(_, _, _)
StoreInsert(sorted, x, sortOrder) ==
  LET tail == sorted[Len(sorted)]
      inPlace == IF sortOrder = "asc" THEN tail.meta.createdAt <= x.meta.createdAt
                 ELSE tail.meta.createdAt >= x.meta.createdAt
  IN IF sorted = <<>> THEN <<x>>
     ELSE IF inPlace THEN Append(sorted, x)
     ELSE Append(StoreInsert(SubSeq(sorted, 1, Len(sorted) - 1), x, sortOrder), tail)

RECURSIVE StoreSort(_, _, _, _)
StoreSort(blocks, i, acc, sortOrder) ==
  IF i > Len(blocks) THEN acc
  ELSE StoreSort(blocks, i + 1, StoreInsert(acc, blocks[i], sortOrder), sortOrder)

\* MemoryQueryOptions {query?, limit?, offset?, sortOrder?}, sorted by createdAt
QueryOptions(q, limit, offset, sortOrder) ==
  [query |-> q, limit |-> limit, offset |-> offset, sortOrder |-> sortOrder]

\* results.slice(offset, offset + limit)
Slice(results, offset, limit) ==
  SubSeq(results, offset + 1, IF offset + limit > Len(results) THEN Len(results) ELSE offset + limit)

\* query(options?) ; the filter sees no edges
query(s, options, time) ==
  LET cleaned == cleanupExpired(s, time)
      all == [i \in 1..Len(cleaned.blocks) |-> cleaned.blocks[i][2]]
      results == IF IsDef(options) /\ IsDef(Val(options).query)
                 THEN FilterIdx(all, {i \in 1..Len(all) :
                                        matchesQuery(all[i], Val(Val(options).query), EmptyGraph)}, 1)
                 ELSE all
      sortOrder == IF IsDef(options) THEN OrElse(Val(options).sortOrder, "desc") ELSE "desc"
      sorted == StoreSort(results, 1, <<>>, sortOrder)
      offset == IF IsDef(options) THEN OrElse(Val(options).offset, 0) ELSE 0
      limit == IF IsDef(options) THEN OrElse(Val(options).limit, Len(sorted)) ELSE Len(sorted)
  IN Read(cleaned, Slice(sorted, offset, limit))

\* delete(blockHash)
delete(s, blockHash, time) ==
  LET cleaned == cleanupExpired(s, time)
  IN Read([blocks |-> MapDelete(cleaned.blocks, blockHash),
           ttls |-> MapDelete(cleaned.ttls, blockHash)],
          HasKey(cleaned.blocks, blockHash))

\* getStats(), without the size in bytes
storeStats(s, time) ==
  LET cleaned == cleanupExpired(s, time)
  IN Read(cleaned, [blockCount |-> Len(cleaned.blocks)])

\* getAllBlocks()
storeAllBlocks(s, time) ==
  LET cleaned == cleanupExpired(s, time)
  IN Read(cleaned, [i \in 1..Len(cleaned.blocks) |-> cleaned.blocks[i][2]])

\* ------------------------------------------------------------------------
\* Specification Spec: the graph under addBlock, removeBlock and clear
\* ------------------------------------------------------------------------

Call(op, hash, existed, parent, options) ==
  [op |-> op, hash |-> hash, existed |-> existed, parent |-> parent, options |-> options]

NoCall == Call("none", <<>>, FALSE, 0, None)

Idle ==
  /\ views = <<>>
  /\ out = None
  /\ forkOut = None
  /\ compacted = None
  /\ graphA = EmptyGraph
  /\ graphB = EmptyGraph
  /\ pendA = {}
  /\ pendB = {}
  /\ made = {}
  /\ now = 0
  /\ compiled = None
  /\ registry = BUILT_IN_CODECS
  /\ store = EmptyStore
  /\ deadlines = <<>>
  /\ loaded = None

\* the call returned no view, no fork result and no compaction result
NoResult ==
  /\ out' = None
  /\ forkOut' = None
  /\ compacted' = None

Init ==
  /\ graph = EmptyGraph
  /\ last = NoCall
  /\ Idle

AddBlock(block, args) ==
  /\ graph' = addBlock(graph, block, args[1], args[2])
  /\ last' = Call("addBlock", block.blockHash, hasBlock(graph, block.blockHash), 0, None)
  /\ NoResult
  /\ UNCHANGED <<views, graphA, graphB, pendA, pendB, made, now, compiled, registry, store, deadlines, loaded>>

RemoveBlock(blockHash) ==
  LET r == removeBlock(graph, blockHash)
  IN /\ graph' = r.graph
     /\ last' = Call("removeBlock", blockHash, r.existed, 0, None)
     /\ NoResult
  /\ UNCHANGED <<views, graphA, graphB, pendA, pendB, made, now, compiled, registry, store, deadlines, loaded>>

Clear ==
  /\ graph' = clear(graph)
  /\ last' = Call("clear", <<>>, FALSE, 0, None)
  /\ NoResult
  /\ UNCHANGED <<views, graphA, graphB, pendA, pendB, made, now, compiled, registry, store, deadlines, loaded>>

Next ==
  \/ \E block \in BlockPool, args \in EdgeArgs : AddBlock(block, args)
  \/ \E blockHash \in PoolHashes : RemoveBlock(blockHash)
  \/ Clear

Spec == Init /\ [][Next]_vars

\* C1: addBlock with a blockHash that is already present, whatever the block and
\* whatever derivedFrom/references are passed, changes nothing: block count,
\* the stored block, getDerivedFrom(hash) and getReferences(hash) stay as they
\* were (first write wins).
C1_AddBlockIdempotent ==
  [][(last'.op = "addBlock" /\ hasBlock(graph, last'.hash)) =>
       /\ getBlockCount(graph') = getBlockCount(graph)
       /\ getBlock(graph', last'.hash) = getBlock(graph, last'.hash)
       /\ getDerivedFrom(graph', last'.hash) = getDerivedFrom(graph, last'.hash)
       /\ getReferences(graph', last'.hash) = getReferences(graph, last'.hash)
       /\ graph' = graph]_vars

\* a re-add has happened on a block that was first stored with edges and with
\* other volatile fields than PinnedPublicLater carries
C1_Witness ==
  /\ last.op = "addBlock"
  /\ last.existed
  /\ last.hash = HashA
  /\ getBlock(graph, HashA) = Some(PinnedPublic)
  /\ Len(getDerivedFrom(graph, HashA)) = 2

\* C2: removeBlock(h) returns true iff h was present, removes h with its own
\* derivedFrom and references entries, and leaves every other block and every
\* other block's edge lists as they were, dangling hashes included; select on
\* the remaining graph gives what it gave before, less h.
C2_RemoveBlockFrame ==
  [][last'.op = "removeBlock" =>
       LET h == last'.hash IN
       /\ last'.existed = hasBlock(graph, h)
       /\ ~hasBlock(graph', h)
       /\ getDerivedFrom(graph', h) = <<>>
       /\ getReferences(graph', h) = <<>>
       /\ getStats(graph').blockCount = getStats(graph).blockCount - (IF hasBlock(graph, h) THEN 1 ELSE 0)
       /\ \A o \in PoolHashes \ {h} :
            /\ getBlock(graph', o) = getBlock(graph, o)
            /\ getDerivedFrom(graph', o) = getDerivedFrom(graph, o)
            /\ getReferences(graph', o) = getReferences(graph, o)
       /\ \A q \in Queries :
            LET before == select(graph, q)
            IN select(graph', q) =
                 FilterIdx(before, {i \in 1..Len(before) : before[i].blockHash # h}, 1)]_vars

\* HashB has been removed while the block HashA still names it as a parent
C2_Witness ==
  /\ last.op = "removeBlock"
  /\ last.existed
  /\ last.hash = HashB
  /\ hasBlock(graph, HashA)
  /\ BlockRef(HashB) \in Range(getDerivedFrom(graph, HashA))
  /\ Len(select(graph, [emptyQuery EXCEPT !.derivedFromAny = Some(<<HashB>>)])) > 0

\* ------------------------------------------------------------------------
\* Specification SpecView: a graph, the views taken from it, merged and forked
\* ------------------------------------------------------------------------

\* how many views the callers take from the graph and keep
MaxViews == 1

ViewPool == {StateRestricted, HistoryInternal, HistoryPublic}

ViewEdgeArgs(block) ==
  IF block = HistoryPublic THEN { <<None, None>>, <<Some(<<BlockRef(HashB)>>), Some(<<HashA>>)>> }
  ELSE { <<None, None>> }

\* the options of createView that are tried: no estimator, an estimator alone,
\* a budget alone, an estimator with a budget, with and without a query
ViewOptionsSet ==
  { ViewOptions(None, None, None),
    ViewOptions(Some(emptyQuery), Some("sized"), None),
    ViewOptions(None, None, Some(1)),
    ViewOptions(None, Some("unit"), Some(0)),
    ViewOptions(None, Some("unit"), Some(2)),
    ViewOptions(None, Some("sized"), Some(2)),
    ViewOptions(None, Some("sized"), Some(5)),
    ViewOptions(Some([emptyQuery EXCEPT !.kinds = Some(<<"history", "state">>)]), Some("unit"), Some(1)),
    ViewOptions(Some([emptyQuery EXCEPT !.derivedFromAny = Some(<<HashB>>)]), None, None) }

Model == [provider |-> "openai", model |-> "gpt-5-nano"]

\* the fork options that are tried along with the views
ViewForkOptions ==
  { ForkOptions("agent-1", Model, None, None, None, None),
    ForkOptions("agent-1", Model, Some(TRUE), Some(TRUE), Some("internal"), Some(4)) }

InitView ==
  /\ graph = EmptyGraph
  /\ last = NoCall
  /\ Idle

\* graph.createView(options); the caller keeps the view
CreateView(options) ==
  /\ Len(views) < MaxViews
  /\ views' = Append(views, createContextView(graph, options))
  /\ last' = Call("createView", <<>>, FALSE, 0, Some(options))
  /\ NoResult
  /\ UNCHANGED <<graph, graphA, graphB, pendA, pendB, made, now, compiled, registry, store, deadlines, loaded>>

\* the views at hand: the ones kept and the one returned last
ViewsAtHand == views \o out

\* mergeViews(a, b) on two views at hand
MergeViews(i, j) ==
  /\ out' = Some(mergeViews(<<ViewsAtHand[i], ViewsAtHand[j]>>))
  /\ last' = Call("mergeViews", <<>>, FALSE, i, None)
  /\ forkOut' = None
  /\ compacted' = None
  /\ UNCHANGED <<graph, views, graphA, graphB, pendA, pendB, made, now, compiled, registry, store, deadlines, loaded>>

\* new ContextFork(graph, views[i]).createFork(options)
CreateFork(i, options) ==
  /\ out' = Some(createFork(views[i], options, now))
  /\ last' = Call("createFork", <<>>, FALSE, i, Some(options))
  /\ forkOut' = None
  /\ compacted' = None
  /\ UNCHANGED <<graph, views, graphA, graphB, pendA, pendB, made, now, compiled, registry, store, deadlines, loaded>>

ExecuteOptionsSet ==
  { ForkOptions("agent-1", Model, Some(TRUE), None, Some("internal"), None) }

Schemas ==
  { [keys |-> << <<"o", "k">> >>, unknownKeys |-> u] : u \in {"strip", "passthrough", "strict"} }

\* forbiddenFields absent, empty, two fields
ForbiddenFieldLists ==
  { None, Some(<<>>), Some(<< <<"x", "x">>, <<"p", "w">> >>) }

Tasks ==
  { Task("do-task", schema, forbiddenFields) :
      schema \in Schemas, forbiddenFields \in ForbiddenFieldLists }

Usage == [inputTokens |-> 2, outputTokens |-> 1, totalTokens |-> 3]

\* the executor throws; returns no object; returns a clean object; returns
\* the forbidden text in a value of the schema, in an unknown key
ExecutorOutcomes ==
  { ExecutorOutcome(TRUE, None, "done", None, Usage),
    ExecutorOutcome(FALSE, None, "done", None, Usage),
    ExecutorOutcome(FALSE, Some(<< <<<<"o", "k">>, <<"f">>>> >>), "done", Some(<<HashB>>), Usage),
    ExecutorOutcome(FALSE, Some(<< <<<<"o", "k">>, <<"x", "p", "w">>>> >>), "done", None, Usage),
    ExecutorOutcome(FALSE, Some(<< <<<<"o", "k">>, <<"f">>>>, <<<<"p", "w">>, <<"f">>>> >>),
                    "done", None, Usage) }

\* a plausible slip: the result is ingested into the parent graph on the way
ExecuteForkIngesting(i, task, options, executor) ==
  LET r == executeFork(views[i], task, options, executor, now, now)
  IN /\ forkOut' = Some(r)
     /\ graph' = IF r.status = "returned"
                 THEN ingestForkResult(graph, Val(r.result), TRUE, now).graph
                 ELSE graph
     /\ last' = Call("executeFork", <<>>, FALSE, i,
                     Some([task |-> task, options |-> options, executor |-> executor]))
     /\ out' = None
     /\ compacted' = None
     /\ UNCHANGED <<views, graphA, graphB, pendA, pendB, made, now, compiled, registry, store, deadlines, loaded>>

\* new ContextFork(graph, views[i]).executeFork(task, options, executor)
ExecuteFork(i, task, options, executor) ==
  /\ forkOut' = Some(executeFork(views[i], task, options, executor, now, now))
  /\ last' = Call("executeFork", <<>>, FALSE, i,
                  Some([task |-> task, options |-> options, executor |-> executor]))
  /\ out' = None
  /\ compacted' = None
  /\ UNCHANGED <<graph, views, graphA, graphB, pendA, pendB, made, now, compiled, registry, store, deadlines, loaded>>

\* a plausible slip: the last block of the compacted list is stored in the graph
CompactViewStoring(i, config, estimator) ==
  LET r == compactView(views[i], config, estimator)
      stored == Val(r.result).blocks
  IN /\ compacted' = Some(r)
     /\ graph' = IF r.status = "returned" /\ Len(stored) > 0
                 THEN addBlock(graph, stored[Len(stored)], None, None)
                 ELSE graph
     /\ last' = Call("compactView", <<>>, FALSE, i, Some([config |-> config, estimator |-> estimator]))
     /\ out' = None
     /\ forkOut' = None
     /\ UNCHANGED <<views, graphA, graphB, pendA, pendB, made, now, compiled, registry, store, deadlines, loaded>>

\* a plausible slip: the blocks are worked on in place, in the view's own array
CompactViewInPlace(i, config, estimator) ==
  LET r == compactView(views[i], config, estimator)
  IN /\ compacted' = Some(r)
     /\ views' = IF r.status = "returned"
                 THEN [views EXCEPT ![i].blocks = Val(r.result).blocks]
                 ELSE views
     /\ last' = Call("compactView", <<>>, FALSE, i, Some([config |-> config, estimator |-> estimator]))
     /\ out' = None
     /\ forkOut' = None
     /\ UNCHANGED <<graph, graphA, graphB, pendA, pendB, made, now, compiled, registry, store, deadlines, loaded>>

\* compactView(views[i], config, estimator)
CompactView(i, config, estimator) ==
  /\ compacted' = Some(compactView(views[i], config, estimator))
  /\ last' = Call("compactView", <<>>, FALSE, i, Some([config |-> config, estimator |-> estimator]))
  /\ out' = None
  /\ forkOut' = None
  /\ UNCHANGED <<graph, views, graphA, graphB, pendA, pendB, made, now, compiled, registry, store, deadlines, loaded>>

\* the executions and compactions that are tried along with the views
ViewTask ==
  Task("do-task", [keys |-> << <<"o", "k">> >>, unknownKeys |-> "strip"], Some(<< <<"p", "w">> >>))

ViewExecutorOutcomes ==
  { ExecutorOutcome(TRUE, None, "done", None, Usage),
    ExecutorOutcome(FALSE, Some(<< <<<<"o", "k">>, <<"f">>>> >>), "done", Some(<<HashB>>), Usage) }

ViewCompactionConfigs ==
  { CompactionConfig(<<"dedupe", "history_trim">>, None, Some(TrimConfig(1, TRUE)), None),
    CompactionConfig(<<"tool_output_prune", "summarize_history">>, None, None,
                     Some([minMessages |-> 1,
                           summarizer |-> Some([threw |-> FALSE, block |-> HistoryPublic])])) }

NextView ==
  \/ \E block \in ViewPool : \E args \in ViewEdgeArgs(block) : AddBlock(block, args)
  \/ \E blockHash \in {b.blockHash : b \in ViewPool} : RemoveBlock(blockHash)
  \/ Clear
  \/ \E options \in ViewOptionsSet : CreateView(options)
  \/ \E i \in 1..Len(ViewsAtHand), j \in 1..Len(ViewsAtHand) : MergeViews(i, j)
  \/ \E i \in 1..Len(views), options \in ViewForkOptions : CreateFork(i, options)
  \/ \E i \in 1..Len(views), executor \in ViewExecutorOutcomes :
        \E options \in ExecuteOptionsSet : ExecuteFork(i, ViewTask, options, executor)
  \/ \E i \in 1..Len(views), config \in ViewCompactionConfigs : CompactView(i, config, "sized")

SpecView == InitView /\ [][NextView]_vars

\* ---- properties of the views ----

\* a is before b in the lexicographic order of digit strings
LexLess(a, b) ==
  \/ Len(a) < Len(b) /\ \A k \in 1..Len(a) : a[k] = b[k]
  \/ \E k \in 1..Len(a) :
       /\ k <= Len(b)
       /\ a[k] < b[k]
       /\ \A m \in 1..(k - 1) : a[m] = b[m]

\* position of a kind in pinned < reference < memory < state < tool_output < history < turn
KindRank(kind) ==
  CASE kind = "pinned" -> 0
    [] kind = "reference" -> 1
    [] kind = "memory" -> 2
    [] kind = "state" -> 3
    [] kind = "tool_output" -> 4
    [] kind = "history" -> 5
    [] kind = "turn" -> 6

InViewOrder(blocks) ==
  \A i \in 1..(Len(blocks) - 1) :
    /\ KindRank(blocks[i].meta.kind) <= KindRank(blocks[i + 1].meta.kind)
    /\ blocks[i].meta.kind = blocks[i + 1].meta.kind =>
         LexLess(blocks[i].blockHash, blocks[i + 1].blockHash)

\* C3: in every view produced by createView or mergeViews, the kind order never
\* decreases from a block to the next, and within equal kinds the block hashes
\* strictly increase.
C3_ViewOrdered ==
  /\ \A i \in 1..Len(views) : InViewOrder(views[i].blocks)
  /\ last.op = "mergeViews" => InViewOrder(Val(out).blocks)

\* a view of three blocks of two kinds, taken after the blocks were added in
\* another order than the view's
C3_Witness ==
  /\ last.op = "createView"
  /\ Len(views[1].blocks) = 3
  /\ getAllBlocks(graph) = <<HistoryInternal, HistoryPublic, StateRestricted>>

\* a merge of a view with a forked view has produced three blocks
C3_WitnessMerge ==
  /\ last.op = "mergeViews"
  /\ Len(Val(out).blocks) = 3

RECURSIVE TokenSum(_, _)
TokenSum(estimator, blocks) ==
  IF blocks = <<>> THEN 0
  ELSE estimateBlock(estimator, Head(blocks)).tokens + TokenSum(estimator, Tail(blocks))

\* C5: with an estimator and maxTokens, the included blocks are a prefix of the
\* sorted selection, their estimates sum to at most maxTokens, and when a block
\* was excluded, the first excluded block would have crossed the budget and
\* tokenEstimate.truncated is true.
C5_BudgetRespected ==
  (/\ last.op = "createView"
   /\ IsDef(Val(last.options).tokenEstimator)
   /\ IsDef(Val(last.options).maxTokens)) =>
    LET options == Val(last.options)
        est == Val(options.tokenEstimator)
        maxTokens == Val(options.maxTokens)
        view == views[Len(views)]
        selection == sortBlocksDeterministic(select(graph, OrElse(options.query, emptyQuery)))
        n == Len(view.blocks)
    IN /\ n <= Len(selection)
       /\ view.blocks = SubSeq(selection, 1, n)
       /\ TokenSum(est, view.blocks) <= maxTokens
       /\ IsDef(view.tokenEstimate)
       /\ n < Len(selection) =>
            /\ maxTokens < TokenSum(est, view.blocks) + estimateBlock(est, selection[n + 1]).tokens
            /\ Val(view.tokenEstimate).truncated

\* a budget of 5 has let the state block (3) and one history block (2) in and
\* has kept the second history block out
C5_Witness ==
  /\ last.op = "createView"
  /\ Val(last.options).tokenEstimator = Some("sized")
  /\ Val(last.options).maxTokens = Some(5)
  /\ Len(views[Len(views)].blocks) = 2
  /\ Val(views[Len(views)].tokenEstimate).truncated

\* C6: a view that createView has returned keeps its block sequence and its
\* stablePrefixHash through every later addBlock, removeBlock, clear,
\* compactView, createFork, executeFork and mergeViews.
C6_ViewImmutable ==
  [][\A i \in 1..Len(views) :
       /\ i <= Len(views')
       /\ views'[i].blocks = views[i].blocks
       /\ views'[i].stablePrefixHash = views[i].stablePrefixHash]_vars

\* a view of three blocks has been compacted to two blocks, one removed
C6_Witness ==
  /\ last.op = "compactView"
  /\ Len(views[1].blocks) = 3
  /\ compacted # None
  /\ Val(compacted).status = "returned"
  /\ Len(Val(Val(compacted).result).blocks) = 2
  /\ Val(Val(compacted).result).removedBlocks = <<HistoryInternal>>

\* a view outlives the blocks it was taken from
C6_WitnessCleared ==
  /\ last.op = "clear"
  /\ Len(views) = 1
  /\ Len(views[1].blocks) = 3
  /\ getBlockCount(graph) = 0

\* ------------------------------------------------------------------------
\* Specification SpecFork: views forked, executed and compacted
\* ------------------------------------------------------------------------

\* the options of createView that are tried before a fork
ForkViewOptions ==
  { ViewOptions(None, None, None),
    ViewOptions(None, Some("sized"), None) }

\* the fork options that are tried: every way of giving or leaving out
\* includeHistory and includeState, three maxima, with and without a budget
ForkOptionsSet ==
  { ForkOptions("agent-1", Model, includeHistory, includeState, maxSensitivity, budgetOverride) :
      includeHistory \in {None, Some(FALSE), Some(TRUE)},
      includeState \in {None, Some(TRUE)},
      maxSensitivity \in {None, Some("internal")},
      budgetOverride \in {None} }
  \cup { ForkOptions("agent-2", Model, Some(TRUE), Some(TRUE), Some("restricted"), Some(4)),
         ForkOptions("agent-2", Model, Some(TRUE), None, None, Some(0)) }

NextFork ==
  \/ \E block \in ViewPool : \E args \in ViewEdgeArgs(block) : AddBlock(block, args)
  \/ \E options \in ForkViewOptions : CreateView(options)
  \/ \E i \in 1..Len(views), options \in ForkOptionsSet : CreateFork(i, options)
  \/ \E i \in 1..Len(views), task \in Tasks, options \in ExecuteOptionsSet,
        executor \in ExecutorOutcomes : ExecuteFork(i, task, options, executor)

SpecFork == InitView /\ [][NextFork]_vars

\* ---- properties of the fork ----

\* createFork drops the blocks of this kind, stubs included
DroppedKind(kind, options) ==
  \/ kind = "history" /\ options.includeHistory # Some(TRUE)
  \/ kind = "state" /\ options.includeState # Some(TRUE)

Above(block, options) ==
  SENSITIVITY_ORDER[block.meta.sensitivity]
    > SENSITIVITY_ORDER[IF options.maxSensitivity = None THEN "public"
                        ELSE Val(options.maxSensitivity)]

IsStubOf(block, original) ==
  /\ block.meta.codecId = "redacted-stub"
  /\ block.payload.originalBlockHash = original.blockHash

\* C8, as stated: every parent block above maxSensitivity has its redacted
\* stub at the same index of the forked view, for every options value.
C8_StubAtSameIndex ==
  last.op = "createFork" =>
    LET parent == views[last.parent].blocks
        fork == Val(out).blocks
    IN \A i \in 1..Len(parent) :
         Above(parent[i], Val(last.options)) =>
           /\ i <= Len(fork)
           /\ IsStubOf(fork[i], parent[i])

\* C8, amended: every parent block above maxSensitivity whose kind createFork
\* does not drop has its redacted stub in the forked view, at its index less
\* the number of dropped parent blocks before it; with includeHistory and
\* includeState both true that is the same index.
C8_StubAtShiftedIndex ==
  last.op = "createFork" =>
    LET parent == views[last.parent].blocks
        fork == Val(out).blocks
        options == Val(last.options)
    IN \A i \in 1..Len(parent) :
         (Above(parent[i], options) /\ ~DroppedKind(parent[i].meta.kind, options)) =>
           LET j == i - Cardinality({k \in 1..(i - 1) : DroppedKind(parent[k].meta.kind, options)})
           IN /\ j <= Len(fork)
              /\ IsStubOf(fork[j], parent[i])
              /\ (options.includeHistory = Some(TRUE) /\ options.includeState = Some(TRUE)) => j = i

\* the state block was dropped and the stub of the internal history block
\* stands at index 2, its parent at index 3
C8_Witness ==
  /\ last.op = "createFork"
  /\ Val(last.options).includeHistory = Some(TRUE)
  /\ Val(last.options).includeState = None
  /\ Len(views[last.parent].blocks) = 3
  /\ views[last.parent].blocks[1] = StateRestricted
  /\ views[last.parent].blocks[3] = HistoryInternal
  /\ Len(Val(out).blocks) = 2
  /\ IsStubOf(Val(out).blocks[2], HistoryInternal)

\* C9: createFork and executeFork, returning or raising, leave the parent
\* view's blocks and stablePrefixHash and the graph's blocks and edges as they
\* were before the call.
C9_ForkLeavesParent ==
  [][last'.op \in {"createFork", "executeFork"} =>
       /\ graph'.blocks = graph.blocks
       /\ graph'.edges = graph.edges
       /\ views'[last'.parent].blocks = views[last'.parent].blocks
       /\ views'[last'.parent].stablePrefixHash = views[last'.parent].stablePrefixHash]_vars

\* an execution has returned a result with a citation, on a graph with
\* blocks and an edge
C9_Witness ==
  /\ last.op = "executeFork"
  /\ Val(forkOut).status = "returned"
  /\ Val(Val(forkOut).result).citations = Some(<<HashB>>)
  /\ getBlockCount(graph) = 3
  /\ Len(getDerivedFrom(graph, HashD)) = 1

\* an execution has raised on a forbidden field
C9_WitnessRaised ==
  /\ last.op = "executeFork"
  /\ Val(forkOut).status = "raised"
  /\ Val(forkOut).error = "ForbiddenFieldLeak"
  /\ getBlockCount(graph) = 3

\* a character string occurs in another
Occurs(field, str) ==
  \E i \in 1..Len(str) :
    /\ i + Len(field) - 1 <= Len(str)
    /\ \A k \in 1..Len(field) : str[i + k - 1] = field[k]

\* C10: with a non-empty forbiddenFields list, when the executor has returned
\* and the schema has validated its output, executeFork raises and returns no
\* ForkResult if the JSON text of the validated output contains a forbidden
\* field; the check is on the validated output: it does not raise on a field
\* that validation has stripped, and it raises ForbiddenFieldLeak only after
\* the executor has returned and the schema has validated.
C10_ForbiddenFieldsFailClosed ==
  last.op = "executeFork" =>
    LET call == Val(last.options)
        task == call.task
        fields == IF task.forbiddenFields = None THEN <<>> ELSE Val(task.forbiddenFields)
        parsed == SchemaParse(task.expectedOutputSchema, call.executor.output)
        validated == ~call.executor.threw /\ parsed.ok
        leak == \E f \in 1..Len(fields) : Occurs(fields[f], JsonStringify(parsed.value))
        r == Val(forkOut)
    IN /\ (Len(fields) > 0 /\ validated /\ leak) =>
            /\ r.status = "raised"
            /\ r.result = None
       /\ (Len(fields) > 0 /\ validated /\ ~leak) => r.status = "returned"
       /\ (r.status = "raised" /\ r.error = "ForbiddenFieldLeak") => validated

\* the validated output holds the forbidden text in a value, not in a key,
\* and the execution has raised
C10_Witness ==
  /\ last.op = "executeFork"
  /\ Val(last.options).executor.output = Some(<< <<<<"o", "k">>, <<"x", "p", "w">>>> >>)
  /\ Val(last.options).task.forbiddenFields = Some(<< <<"x", "x">>, <<"p", "w">> >>)
  /\ Val(forkOut).status = "raised"
  /\ Val(forkOut).error = "ForbiddenFieldLeak"

\* the forbidden key was stripped by validation and the execution has returned
C10_WitnessStripped ==
  /\ last.op = "executeFork"
  /\ Val(last.options).task.forbiddenFields = Some(<< <<"x", "x">>, <<"p", "w">> >>)
  /\ Val(last.options).task.expectedOutputSchema.unknownKeys = "strip"
  /\ Val(last.options).executor.output = Some(<< <<<<"o", "k">>, <<"f">>>>, <<<<"p", "w">>, <<"f">>>> >>)
  /\ Val(forkOut).status = "returned"

\* ------------------------------------------------------------------------
\* Specification SpecOrder: one set of blocks added to two graphs in two orders
\* ------------------------------------------------------------------------

OrderPool == {PinnedPublic, PinnedPublicLater, StateRestricted, HistoryPublic}

\* the edges a block is added with, the same in both orders
OrderEdgeArgs(block) ==
  IF block = HistoryPublic THEN <<Some(<<BlockRef(HashB)>>), Some(<<HashA>>)>>
  ELSE <<None, None>>

OrderViewOptions ==
  { ViewOptions(None, None, None),
    ViewOptions(None, Some("sized"), Some(3)),
    ViewOptions(Some([emptyQuery EXCEPT !.tags = Some(<<"t1">>)]), Some("unit"), None),
    ViewOptions(Some([emptyQuery EXCEPT !.derivedFromAny = Some(<<HashB>>)]), None, None) }

\* made is the set of blocks; each graph has its own blocks still to add
InitOrder ==
  /\ made \in SUBSET OrderPool
  /\ pendA = made
  /\ pendB = made
  /\ graphA = EmptyGraph
  /\ graphB = EmptyGraph
  /\ graph = EmptyGraph
  /\ last = NoCall
  /\ views = <<>>
  /\ out = None
  /\ forkOut = None
  /\ compacted = None
  /\ now = 0
  /\ compiled = None
  /\ registry = BUILT_IN_CODECS
  /\ store = EmptyStore
  /\ deadlines = <<>>
  /\ loaded = None

\* graphA.addBlock(block, derivedFrom, references)
AddToA(block) ==
  /\ block \in pendA
  /\ views = <<>>
  /\ graphA' = addBlock(graphA, block, OrderEdgeArgs(block)[1], OrderEdgeArgs(block)[2])
  /\ pendA' = pendA \ {block}
  /\ last' = Call("addBlock", block.blockHash, hasBlock(graphA, block.blockHash), 0, None)
  /\ UNCHANGED <<graph, views, out, forkOut, compacted, graphB, pendB, made, now, compiled, registry, store, deadlines, loaded>>

\* graphB.addBlock(block, derivedFrom, references)
AddToB(block) ==
  /\ block \in pendB
  /\ views = <<>>
  /\ graphB' = addBlock(graphB, block, OrderEdgeArgs(block)[1], OrderEdgeArgs(block)[2])
  /\ pendB' = pendB \ {block}
  /\ last' = Call("addBlock", block.blockHash, hasBlock(graphB, block.blockHash), 0, None)
  /\ UNCHANGED <<graph, views, out, forkOut, compacted, graphA, pendA, made, now, compiled, registry, store, deadlines, loaded>>

\* graphA.createView(options) and graphB.createView(options), once every
\* block is added
CreateViews(options) ==
  /\ pendA = {}
  /\ pendB = {}
  /\ views = <<>>
  /\ views' = <<createContextView(graphA, options), createContextView(graphB, options)>>
  /\ last' = Call("createView", <<>>, FALSE, 0, Some(options))
  /\ UNCHANGED <<graph, out, forkOut, compacted, graphA, graphB, pendA, pendB, made, now, compiled, registry, store, deadlines, loaded>>

\* graphA.createView(options) again, on the unchanged graph
CreateViewAgain ==
  /\ Len(views) = 2
  /\ out = None
  /\ out' = Some(createContextView(graphA, Val(last.options)))
  /\ last' = Call("createViewAgain", <<>>, FALSE, 1, last.options)
  /\ UNCHANGED <<graph, views, forkOut, compacted, graphA, graphB, pendA, pendB, made, now, compiled, registry, store, deadlines, loaded>>

NextOrder ==
  \/ \E block \in OrderPool : AddToA(block)
  \/ \E block \in OrderPool : AddToB(block)
  \/ \E options \in OrderViewOptions : CreateViews(options)
  \/ CreateViewAgain

SpecOrder == InitOrder /\ [][NextOrder]_vars

SameViews ==
  /\ views[1].blocks = views[2].blocks
  /\ views[1].stablePrefixHash = views[2].stablePrefixHash

\* C4, as stated: for any set of blocks and any two orders of adding them,
\* createView with the same query, estimator and maxTokens returns the same
\* block sequence and the same stablePrefixHash, and createView again on the
\* unchanged graph returns the same stablePrefixHash.
C4_OrderIndependent ==
  /\ Len(views) = 2 => SameViews
  /\ last.op = "createViewAgain" => Val(out).stablePrefixHash = views[1].stablePrefixHash

\* C4, amended: the same for any set of blocks whose blockHashes are pairwise
\* distinct.
C4_OrderIndependentDistinctHashes ==
  (\A b1 \in made, b2 \in made : b1.blockHash = b2.blockHash => b1 = b2) =>
    /\ Len(views) = 2 => SameViews
    /\ last.op = "createViewAgain" => Val(out).stablePrefixHash = views[1].stablePrefixHash

\* three blocks of distinct hashes were added in two different orders and the
\* two views hold the three of them
C4_Witness ==
  /\ made = {PinnedPublic, StateRestricted, HistoryPublic}
  /\ Len(views) = 2
  /\ getAllBlocks(graphA) # getAllBlocks(graphB)
  /\ Len(views[1].blocks) = 3
  /\ last.op = "createViewAgain"

\* ------------------------------------------------------------------------
\* Specification SpecHash: the blocks the library constructs
\* ------------------------------------------------------------------------

\* how many constructed blocks are kept side by side
MaxMade == 2

\* how far the clock (in seconds) runs
MaxNow == 1

SystemRules ==
  { [text |-> "rules", priority |-> None, cacheable |-> None],
    [text |-> " rules ", priority |-> Some(0), cacheable |-> Some(FALSE)],
    [text |-> "other", priority |-> Some(1), cacheable |-> None] }

BlockOptionsSet ==
  { BlockOptions(None, None, None),
    BlockOptions(Some("restricted"), None, None),
    BlockOptions(None, Some("s1"), Some(<<"t1">>)) }

ToolOutput ==
  Block(<<4, 4>>, Meta("tool_output", "public", "tool-output", 1, None, None),
        [output |-> <<1, 2, 3>>, error |-> FALSE, status |-> "ok", _truncated |-> FALSE])

ForkResults ==
  { [agentId |-> "agent-1", model |-> Model, summary |-> "done",
     output |-> << <<<<"o", "k">>, <<"f">>>> >>, citations |-> citations, usage |-> Usage,
     provenance |-> [sourceViewHash |-> HashA, executionHash |-> HashB,
                     forkedAt |-> 0, completedAt |-> 0]] :
      citations \in {None, Some(<<HashB>>)} }

InitHash ==
  /\ made = {}
  /\ now = 0
  /\ compiled = None
  /\ registry = BUILT_IN_CODECS
  /\ store = EmptyStore
  /\ deadlines = <<>>
  /\ loaded = None
  /\ graph = EmptyGraph
  /\ last = NoCall
  /\ views = <<>>
  /\ out = None
  /\ forkOut = None
  /\ compacted = None
  /\ graphA = EmptyGraph
  /\ graphB = EmptyGraph
  /\ pendA = {}
  /\ pendB = {}

\* the library has constructed a block
Make(op, block) ==
  /\ Cardinality(made \cup {block}) <= MaxMade
  /\ made' = made \cup {block}
  /\ last' = Call(op, block.blockHash, FALSE, 0, None)
  /\ UNCHANGED <<graph, views, out, forkOut, compacted, graphA, graphB, pendA, pendB, now, compiled, registry, store, deadlines, loaded>>

\* a second of the wall clock passes
Tick ==
  /\ now < MaxNow
  /\ now' = now + 1
  /\ last' = Call("tick", <<>>, FALSE, 0, None)
  /\ UNCHANGED <<graph, views, out, forkOut, compacted, graphA, graphB, pendA, pendB, made, compiled, registry, store, deadlines, loaded>>

\* builder.system(rules, options)
BuilderSystem(rules, options) ==
  Make("system", createBlock("pinned", SystemRulesCodec, rules, options, now))

\* builder.turn(text, options)
BuilderTurn(text, options) ==
  Make("turn", createBlock("turn", UserTurnCodec, [text |-> text], options, now))

\* createRedactedStub, as createFork calls it on a block above the maximum
MakeStub(original, maxSensitivity) ==
  /\ exceedsSensitivityLevel(original.meta.sensitivity, maxSensitivity)
  /\ Make("createRedactedStub",
          createRedactedStub(original,
                             [level |-> original.meta.sensitivity, max |-> maxSensitivity], now))

\* createReplacementBlock, as pruneToolOutputs calls it on a large output
MakeReplacement(original, maxRawTailChars) ==
  Make("createReplacementBlock",
       createReplacementBlock(original,
                              [original.payload EXCEPT
                                 !.output = truncateTail(original.payload.output, maxRawTailChars),
                                 !._truncated = TRUE],
                              "tool_output_prune", "1.0.0"))

\* fork.ingestForkResult(result, asMemory)
IngestForkResult(result, asMemory) ==
  Make("ingestForkResult", ingestForkResult(EmptyGraph, result, asMemory, now).block)

NextHash ==
  \/ Tick
  \/ \E rules \in SystemRules, options \in BlockOptionsSet : BuilderSystem(rules, options)
  \/ \E text \in {"talk", "other"}, options \in BlockOptionsSet : BuilderTurn(text, options)
  \/ \E original \in {StateRestricted, HistoryInternal}, maxSensitivity \in {"public", "internal"} :
        MakeStub(original, maxSensitivity)
  \/ \E maxRawTailChars \in {1, 2} : MakeReplacement(ToolOutput, maxRawTailChars)
  \/ \E result \in ForkResults, asMemory \in BOOLEAN : IngestForkResult(result, asMemory)

SpecHash == InitHash /\ [][NextHash]_vars

\* the canonical payload of a block, by the codec its metadata names
CanonicalPayload(block) ==
  IF block.meta.codecId \in {"system-rules", "redacted-stub", "user-turn"}
  THEN canonicalize([codecId |-> block.meta.codecId], block.payload)
  ELSE block.payload

StableMeta(block) ==
  <<block.meta.kind, block.meta.sensitivity, block.meta.codecId, block.meta.codecVersion>>

\* C7: for the blocks the library constructs, two blocks with the same
\* blockHash have the same stable metadata and the same canonical payload, and
\* two blocks that differ only in createdAt, source or tags have the same
\* blockHash.
C7_HashOfStableContent ==
  \A b1 \in made, b2 \in made :
    /\ b1.blockHash = b2.blockHash =>
         /\ StableMeta(b1) = StableMeta(b2)
         /\ CanonicalPayload(b1) = CanonicalPayload(b2)
    /\ (StableMeta(b1) = StableMeta(b2) /\ b1.payload = b2.payload) =>
         b1.blockHash = b2.blockHash

\* ------------------------------------------------------------------------
\* Specification SpecCompact: compactView on views a caller has put together
\* ------------------------------------------------------------------------

\* the longest of the short views that are compacted
MaxBlocks == 3

ToolMeta(codecId, createdAt, source, tags) ==
  Meta("tool_output", "public", codecId, createdAt, source, tags)

ToolPayload(output, error, status) ==
  [output |-> output, error |-> error, status |-> status, _truncated |-> FALSE]

\* three outputs of one tool: an old large one, a large one that reports an
\* error, a recent short one; and one large output of another tool
ToolOld == Block(<<4, 1>>, ToolMeta("tool-output", 1, None, None), ToolPayload(<<1, 2, 3>>, FALSE, "ok"))

ToolErr ==
  Block(<<4, 2>>, ToolMeta("tool-output", 2, Some("s1"), Some(<<"t1">>)),
        ToolPayload(<<1, 2, 3, 4>>, FALSE, "error"))

ToolNew == Block(<<4, 3>>, ToolMeta("tool-output", 3, None, None), ToolPayload(<<1>>, FALSE, "ok"))

ToolOther == Block(<<4, 5>>, ToolMeta("test", 1, None, None), ToolPayload(<<5, 6, 7>>, FALSE, "ok"))

\* the content of a conversation message: a string, or an array of parts
Text(str) == [isString |-> TRUE, text |-> str, parts |-> <<>>]

Parts(parts) == [isString |-> FALSE, text |-> "none", parts |-> parts]

\* a history block, older than the others, with a message that carries an error
HistoryError ==
  Block(<<5, 0>>, Meta("history", "public", "conversation-history", 0, None, None),
        [messages |-> << [role |-> "user", content |-> Text("talk"), error |-> TRUE] >>])

CompactPool ==
  { ToolOld, ToolErr, ToolNew, ToolOther, HistoryError, HistoryInternal, HistoryPublic }

\* the n-th block of a long conversation
Turn(n) ==
  Block(<<6, n>>, Meta("history", "internal", "conversation-history", n,
                       IF n = 1 THEN None ELSE Some("s1"), IF n = 1 THEN Some(<<"t1">>) ELSE None),
        [messages |-> << [role |-> "user", content |-> Text("talk"), error |-> FALSE] >>])

\* conversations longer than the ten blocks that summarize_history keeps raw
LongViews ==
  { [n \in 1..(keepCount + 1) |-> Turn(n)],
    <<ToolOld>> \o [n \in 1..(keepCount + 2) |-> Turn(keepCount + 3 - n)] }

\* a ContextView as a caller puts it together from blocks
ViewOf(blocks) ==
  [blocks |-> blocks, tokenEstimate |-> None,
   stablePrefixHash |-> computeStablePrefixHash(blocks)]

ShortViews ==
  UNION { [1..n -> CompactPool] : n \in 0..MaxBlocks }

\* views that hold a blockHash more than once, in two objects or in one
DuplicateViews ==
  UNION { [1..n -> {PinnedPublic, PinnedPublicLater, ToolNew}] : n \in 2..MaxBlocks }

\* the graph the blocks of the views are stored in as well
CompactGraph ==
  addBlock(addBlock(EmptyGraph, ToolOld, None, None),
           ToolErr, Some(<<BlockRef(ToolOld.blockHash)>>), Some(<<HistoryError.blockHash>>))

InitCompact ==
  /\ graph = CompactGraph
  /\ last = NoCall
  /\ \E blocks \in ShortViews \cup DuplicateViews \cup LongViews : views = <<ViewOf(blocks)>>
  /\ out = None
  /\ forkOut = None
  /\ compacted = None
  /\ graphA = EmptyGraph
  /\ graphB = EmptyGraph
  /\ pendA = {}
  /\ pendB = {}
  /\ made = {}
  /\ now = 0
  /\ compiled = None
  /\ registry = BUILT_IN_CODECS
  /\ store = EmptyStore
  /\ deadlines = <<>>
  /\ loaded = None

\* the library's summarizer, answering or failing, and a caller's own
AnthropicSummarizer == [threw |-> FALSE, summary |-> "done", at |-> 20]

FailingSummarizer == [threw |-> TRUE, summary |-> "done", at |-> 20]

OwnSummarizer == [threw |-> FALSE, block |-> HistoryPublic]

Summarization(summarizer) == Some([minMessages |-> 1, summarizer |-> Some(summarizer)])

CompactConfigs ==
  { CompactionConfig(<<"dedupe">>, None, None, None),
    CompactionConfig(<<"tool_output_prune">>, None, None, None),
    CompactionConfig(<<"history_trim">>, None, None, None),
    CompactionConfig(<<"summarize_history">>, None, None, None),
    CompactionConfig(<<"summarize_history">>, None, None, Summarization(OwnSummarizer)),
    CompactionConfig(<<"summarize_history">>, None, None, Summarization(AnthropicSummarizer)),
    CompactionConfig(<<"tool_output_prune", "dedupe">>, Some(PruningConfig(2, TRUE, 1)), None, None),
    CompactionConfig(<<"history_trim", "summarize_history">>, None, Some(TrimConfig(11, FALSE)),
                     Summarization(FailingSummarizer)),
    CompactionConfig(<<"dedupe", "tool_output_prune", "history_trim", "summarize_history">>,
                     Some(PruningConfig(2, FALSE, 2)), Some(TrimConfig(11, TRUE)),
                     Summarization(AnthropicSummarizer)) }
  \cup { CompactionConfig(<<"tool_output_prune">>, Some(PruningConfig(2, e, n)), None, None) :
            e \in BOOLEAN, n \in 0..2 }
  \cup { CompactionConfig(<<"history_trim">>, None, Some(TrimConfig(k, e)), None) :
            e \in BOOLEAN, k \in {0, 1, 3} }

CompactEstimators == {"sized", "failing"}

NextCompact ==
  \E config \in CompactConfigs, estimator \in CompactEstimators : CompactView(1, config, estimator)

SpecCompact == InitCompact /\ [][NextCompact]_vars

\* ---- properties of compaction ----

\* the result of the compactView call that has just returned
Compaction == Val(Val(compacted).result)

CompactReturned ==
  /\ last.op = "compactView"
  /\ Val(compacted).status = "returned"

\* C11: compactView leaves its inputs alone: after the call the input view has
\* the block sequence it had, and the graph's stats (blockCount,
\* derivationEdgeCount, referenceEdgeCount) are the ones before the call.
C11_CompactViewFrame ==
  [][last'.op = "compactView" =>
       /\ views'[last'.parent].blocks = views[last'.parent].blocks
       /\ getStats(graph').blockCount = getStats(graph).blockCount
       /\ getStats(graph').derivationEdgeCount = getStats(graph).derivationEdgeCount
       /\ getStats(graph').referenceEdgeCount = getStats(graph).referenceEdgeCount]_vars

\* four steps have rewritten a view of three blocks whose blocks are in the
\* graph: one output removed, one replaced by its truncated successor
C11_Witness ==
  /\ CompactReturned
  /\ Len(Val(last.options).config.steps) = 4
  /\ views[1].blocks = <<ToolOld, ToolErr, ToolNew>>
  /\ Len(Compaction.removedBlocks) = 1
  /\ Compaction.blocks # views[1].blocks
  /\ Len(Compaction.blocks) = 2
  /\ getStats(graph).blockCount = 2

\* the sources that end with ":compacted" and the tags "compacted:<step>"
EndsWithCompacted(source) ==
  source \in {"s1:compacted", "unknown:compacted", "s1:compacted:compacted",
              "unknown:compacted:compacted"}

CompactedTags ==
  {"compacted:dedupe", "compacted:tool_output_prune", "compacted:history_trim",
   "compacted:summarize_history"}

\* the blocks of the output that the input view did not hold
Successors ==
  {b \in Range(Compaction.blocks) : b \notin Range(views[last.parent].blocks)}

\* C12: every successor block that compaction puts into its output (a truncated
\* tool output, the summary block that replaces old history) has meta.tags
\* containing "compacted:<step>" and meta.source ending with ":compacted".
C12_SuccessorsCarryProvenance ==
  CompactReturned =>
    \A b \in Successors :
      /\ IsDef(b.meta.tags)
      /\ \E t \in Range(Val(b.meta.tags)) : t \in CompactedTags
      /\ IsDef(b.meta.source)
      /\ EndsWithCompacted(Val(b.meta.source))

\* the positions of a block list that hold the first occurrence of their blockHash
FirstOccurrences(blocks) ==
  {i \in 1..Len(blocks) : \A j \in 1..(i - 1) : blocks[j].blockHash # blocks[i].blockHash}

\* C13: after the dedupe step the output holds each blockHash of the input
\* exactly once, in the order of first occurrence; every later duplicate is in
\* removedBlocks; the step report has lossy = false.
C13_DedupeKeepsFirst ==
  (CompactReturned /\ Val(last.options).config.steps = <<"dedupe">>) =>
    LET input == views[last.parent].blocks
        output == Compaction.blocks
        first == FirstOccurrences(input)
    IN /\ {b.blockHash : b \in Range(output)} = {b.blockHash : b \in Range(input)}
       /\ \A i \in 1..Len(output), j \in 1..Len(output) :
            output[i].blockHash = output[j].blockHash => i = j
       /\ output = FilterIdx(input, first, 1)
       /\ Compaction.removedBlocks = FilterIdx(input, (1..Len(input)) \ first, 1)
       /\ Len(Compaction.report.stepReports) = 1
       /\ Compaction.report.stepReports[1].step = "dedupe"
       /\ Compaction.report.stepReports[1].lossy = FALSE
       /\ Compaction.report.stepReports[1].blocksRemoved = Len(input) - Cardinality(first)

\* a blockHash held by two different objects around another block: the first
\* object is kept, the later one removed
C13_Witness ==
  /\ CompactReturned
  /\ Val(last.options).config.steps = <<"dedupe">>
  /\ views[1].blocks = <<PinnedPublicLater, ToolNew, PinnedPublic>>
  /\ Compaction.blocks = <<PinnedPublicLater, ToolNew>>
  /\ Compaction.removedBlocks = <<PinnedPublic>>

\* the compaction that has returned ran the one step `step`
RanOnly(step) ==
  /\ CompactReturned
  /\ Val(last.options).config.steps = <<step>>

\* the createdAt of the tool_output blocks of one codecId, in the order of the list
ToolCreatedAts(blocks, codecId) ==
  LET toolBlocks == FilterIdx(blocks,
                              {i \in 1..Len(blocks) :
                                 /\ blocks[i].meta.kind = "tool_output"
                                 /\ blocks[i].meta.codecId = codecId}, 1)
  IN [i \in 1..Len(toolBlocks) |-> toolBlocks[i].meta.createdAt]

Min(a, b) == IF a <= b THEN a ELSE b

\* the ascending order of a list of numbers
RECURSIVE Ascending(_)
Ascending(s) ==
  IF s = <<>> THEN <<>>
  ELSE LET least == CHOOSE i \in 1..Len(s) : \A j \in 1..Len(s) : s[i] <= s[j]
       IN <<s[least]>> \o Ascending(SubSeq(s, 1, least - 1) \o SubSeq(s, least + 1, Len(s)))

\* of the k outputs of codecId in the input, the min(N, k) with the greatest
\* createdAt are in the output and the others are in removedBlocks
KeepsLastN(codecId, N) ==
  LET given == Ascending(ToolCreatedAts(views[last.parent].blocks, codecId))
      k == Len(given)
      m == Min(N, k)
  IN /\ ToolCreatedAts(Compaction.blocks, codecId) = SubSeq(given, k - m + 1, k)
     /\ Ascending(ToolCreatedAts(Compaction.removedBlocks, codecId)) = SubSeq(given, 1, k - m)

PruningOf(config) == OrElse(config.toolOutputPruning, DEFAULT_TOOL_OUTPUT_PRUNING)

\* C14: for every codecId and every maxOutputsPerTool = N >= 0, after
\* tool_output_prune the output holds exactly min(N, k) tool_output blocks of
\* that codecId, k being their number in the input; they are the ones with the
\* greatest createdAt, and the other k - min(N, k) are in removedBlocks.
C14_PruneKeepsLastN ==
  RanOnly("tool_output_prune") =>
    \A codecId \in {"tool-output", "test"} :
      KeepsLastN(codecId, PruningOf(Val(last.options).config).maxOutputsPerTool)

TrimOf(config) == OrElse(config.historyTrim, TrimConfig(20, TRUE))

\* payload.messages has an entry with a truthy error field
CarriesError(block) ==
  /\ "messages" \in DOMAIN block.payload
  /\ \E m \in Range(block.payload.messages) : m.error

\* two block lists hold the same blocks, each as many times
SameBlocks(a, b) ==
  /\ Len(a) = Len(b)
  /\ \A x \in Range(a) \cup Range(b) :
       Cardinality({i \in 1..Len(a) : a[i] = x}) = Cardinality({i \in 1..Len(b) : b[i] = x})

\* the history blocks of the output are the K with the greatest createdAt and,
\* with the flag, the older ones that carry an error; the others are removed
TrimKeepsLastK(K, keepErrorMessages) ==
  LET given == SortByCreatedAt(OfKind(views[last.parent].blocks, "history"), 1, <<>>)
      n == Len(given)
      m == Min(K, n)
      recent == SubSeq(given, n - m + 1, n)
      older == SubSeq(given, 1, n - m)
      spared == {i \in 1..Len(older) : keepErrorMessages /\ CarriesError(older[i])}
  IN /\ SameBlocks(OfKind(Compaction.blocks, "history"), recent \o FilterIdx(older, spared, 1))
     /\ SameBlocks(Compaction.removedBlocks, FilterIdx(older, (1..Len(older)) \ spared, 1))
     /\ K >= n => Compaction.removedBlocks = <<>>

\* C15: for any keepRecentMessages = K >= 0 and keepErrorMessages flag, after
\* history_trim the history blocks in the output are exactly the K history
\* blocks with the greatest createdAt plus, when the flag is true, every older
\* history block with an error message; every other history block is in
\* removedBlocks; when K is at least the number of history blocks nothing is
\* removed.
C15_TrimKeepsLastK ==
  RanOnly("history_trim") =>
    TrimKeepsLastK(TrimOf(Val(last.options).config).keepRecentMessages,
                   TrimOf(Val(last.options).config).keepErrorMessages)

\* C16: a failed compaction returns the original blocks: when the estimator or
\* the summarizer fails at any point of compactView, the caller gets back the
\* input view's blocks, never a partially compacted list.
C16_FailedCompactionReturnsOriginal ==
  (last.op = "compactView" /\ Val(compacted).status = "raised") =>
    /\ IsDef(Val(compacted).result)
    /\ Val(Val(compacted).result).blocks = views[last.parent].blocks

\* ------------------------------------------------------------------------
\* Specification SpecQuery: queries merged and run against a graph
\* ------------------------------------------------------------------------

\* how many queries one call of mergeQueries is given
MaxQueries == 2

QueryPool == {PinnedPublic, HistoryInternal, HistoryPublic}

QueryEdgeArgs(block) ==
  IF block = HistoryPublic THEN <<Some(<<BlockRef(HashA)>>), Some(<<HashC>>)>>
  ELSE IF block = HistoryInternal THEN <<Some(<<BlockRef(HashA), BlockRef(HashD)>>), None>>
  ELSE <<None, None>>

\* the queries that are merged, some of them at odds with each other
MergedQueries ==
  { emptyQuery,
    [emptyQuery EXCEPT !.kinds = Some(<<"history">>)],
    [emptyQuery EXCEPT !.kinds = Some(<<"pinned">>)],
    [emptyQuery EXCEPT !.kinds = Some(<<"pinned", "history">>), !.tags = Some(<<"t1">>)],
    [emptyQuery EXCEPT !.minSensitivity = Some("internal"), !.maxCreatedAt = Some(1),
                       !.excludeHashes = Some(<<HashA>>)],
    [emptyQuery EXCEPT !.maxSensitivity = Some("public"), !.minCreatedAt = Some(2),
                       !.maxTokens = Some(2)],
    [emptyQuery EXCEPT !.source = Some("s1")],
    [emptyQuery EXCEPT !.source = Some("agent-1")],
    [emptyQuery EXCEPT !.derivedFromAny = Some(<<HashA>>)],
    [emptyQuery EXCEPT !.derivedFromAny = Some(<<HashD>>), !.maxTokens = Some(1)],
    [emptyQuery EXCEPT !.referencesAny = Some(<<HashC>>), !.notDerivedFromAny = Some(<<HashD>>)] }

QueryLists == UNION { [1..n -> MergedQueries] : n \in 0..MaxQueries }

\* graph.select(mergeQueries(...queries)) and graph.createView({query: merged})
SelectMerged(queries) ==
  LET merged == mergeQueries(queries)
  IN /\ last' = Call("mergeQueries", <<>>, FALSE, 0,
                     Some([queries |-> queries, merged |-> merged,
                           selected |-> select(graph, merged)]))
     /\ out' = Some(createContextView(graph, ViewOptions(Some(merged), None, None)))
     /\ forkOut' = None
     /\ compacted' = None
     /\ UNCHANGED <<graph, views, graphA, graphB, pendA, pendB, made, now, compiled, registry, store, deadlines, loaded>>

NextQuery ==
  \/ \E block \in QueryPool : AddBlock(block, QueryEdgeArgs(block))
  \/ \E queries \in QueryLists : SelectMerged(queries)

SpecQuery == InitView /\ [][NextQuery]_vars

\* the call that has just returned merged queries
Merged == Val(last.options)

\* C17: mergeQueries AND-combines its inputs: for any queries q1..qn, any
\* graph and any block b, b matches mergeQueries(q1, ..., qn) if and only if b
\* matches every one of q1..qn.
C17_MergeIsConjunction ==
  last.op = "mergeQueries" =>
    \A b \in QueryPool :
      matchesQuery(b, Merged.merged, graph)
        <=> \A i \in 1..Len(Merged.queries) : matchesQuery(b, Merged.queries[i], graph)

\* the merged queries name two different sources
SourcesConflict ==
  \E i \in 1..Len(Merged.queries), j \in 1..Len(Merged.queries) :
    /\ IsDef(Merged.queries[i].source)
    /\ IsDef(Merged.queries[j].source)
    /\ Merged.queries[i].source # Merged.queries[j].source

\* C18: merging queries whose source values conflict yields the impossible
\* query: for any graph, select with the merged query, and createView from it,
\* return an empty result and raise no error.
C18_ConflictSelectsNothing ==
  (last.op = "mergeQueries" /\ SourcesConflict) =>
    /\ Merged.selected = <<>>
    /\ Val(out).blocks = <<>>

\* ------------------------------------------------------------------------
\* Provider compilers (providers/anthropic-compiler.ts, gemini-compiler.ts,
\* openai-compiler.ts)
\* ------------------------------------------------------------------------

\* What codec.render(block) gives for one provider, by the codec the registry
\* holds under the block's codecId: [shape, text, messages]. A rendered
\* string has shape "string" and its text; an object with a text has shape
\* "text"; a message object has shape "message" and one message; an array
\* has shape "array" and its elements. Texts are digit strings.
Rendered(shape, text, messages) == [shape |-> shape, text |-> text, messages |-> messages]

\* JSON.stringify(block.payload) in the render of the tests' codec
MockText(block) == <<0>> \o JsonPayload(block.payload)

\* rendered.anthropic
RenderAnthropic(block) ==
  LET codecId == block.meta.codecId
      messages == block.payload.messages
  IN CASE codecId = "system-rules" -> Rendered("text", JsonString(block.payload.text), <<>>)
       [] codecId = "conversation-history" ->
            Rendered("array", <<>>,
                     [i \in 1..Len(messages) |->
                        [role |-> messages[i].role,
                         content |-> IF messages[i].content.isString
                                     THEN JsonString(messages[i].content.text)
                                     ELSE <<0, Len(messages[i].content.parts)>>]])
       [] codecId = "user-turn" ->
            Rendered("message", <<>>,
                     << [role |-> "user", content |-> JsonString(block.payload.text)] >>)
       [] OTHER -> Rendered("array", <<>>, << [type |-> "text", text |-> MockText(block)] >>)

\* rendered.gemini
RenderGemini(block) ==
  LET codecId == block.meta.codecId
      messages == block.payload.messages
  IN CASE codecId = "system-rules" -> Rendered("string", JsonString(block.payload.text), <<>>)
       [] codecId = "conversation-history" ->
            Rendered("array", <<>>,
                     [i \in 1..Len(messages) |->
                        [role |-> IF messages[i].role = "assistant" THEN "model" ELSE "user",
                         parts |-> IF messages[i].content.isString
                                   THEN << [text |-> JsonString(messages[i].content.text)] >>
                                   ELSE messages[i].content.parts]])
       [] codecId = "user-turn" ->
            Rendered("message", <<>>,
                     << [role |-> "user", parts |-> << [text |-> JsonString(block.payload.text)] >>] >>)
       [] OTHER -> Rendered("string", MockText(block), <<>>)

\* rendered.openai
RenderOpenAI(block) ==
  LET codecId == block.meta.codecId
      messages == block.payload.messages
  IN CASE codecId = "system-rules" ->
            Rendered("message", <<>>,
                     << [role |-> "system", content |-> JsonString(block.payload.text)] >>)
       [] codecId = "conversation-history" ->
            Rendered("array", <<>>,
                     [i \in 1..Len(messages) |->
                        [role |-> messages[i].role,
                         content |-> IF messages[i].content.isString
                                     THEN JsonString(messages[i].content.text)
                                     ELSE <<0, Len(messages[i].content.parts)>>]])
       [] codecId = "user-turn" ->
            Rendered("message", <<>>,
                     << [role |-> "user", content |-> JsonString(block.payload.text)] >>)
       [] OTHER -> Rendered("message", <<>>, << [role |-> "system", content |-> MockText(block)] >>)

\* JSON.stringify of a rendered object or array
JsonRendered(r) ==
  <<0, Len(r.messages)>> \o r.text
  \o (IF Len(r.messages) > 0 /\ "text" \in DOMAIN r.messages[1] THEN r.messages[1].text ELSE <<>>)

\* CacheBreakpointSelector: {kind?, codecId?, tag?, source?}
Selector(kind, codecId, tag, source) ==
  [kind |-> kind, codecId |-> codecId, tag |-> tag, source |-> source]

\* resolveCacheBreakpoint(blocks, selector): position is an index from 0, -1
\* when nothing matches
resolveCacheBreakpoint(blocks, selector) ==
  LET matches(block) ==
        /\ (~IsDef(selector.kind) \/ block.meta.kind = Val(selector.kind))
        /\ (~IsDef(selector.codecId) \/ block.meta.codecId = Val(selector.codecId))
        /\ (~IsDef(selector.tag)
              \/ (IsDef(block.meta.tags) /\ Includes(Val(block.meta.tags), Val(selector.tag))))
        /\ (~IsDef(selector.source) \/ block.meta.source = selector.source)
      matchedIndices == FilterIdx([i \in 1..Len(blocks) |-> i - 1],
                                  {i \in 1..Len(blocks) : matches(blocks[i])}, 1)
  IN IF Len(matchedIndices) = 0 THEN [position |-> 0 - 1, matchedBlocks |-> 0]
     ELSE [position |-> matchedIndices[Len(matchedIndices)],
           matchedBlocks |-> Len(matchedIndices)]

\* the loop of compileSystemMessages over the system blocks, i from 0
RECURSIVE SystemLoop(_, _, _, _, _, _)
SystemLoop(blocks, codecRegistry, cacheBreakpoint, cacheBreakpointPos, i, messages) ==
  IF i >= Len(blocks) THEN messages
  ELSE LET block == blocks[i + 1]
           anthropicContent == RenderAnthropic(block)
           entry == [type |-> "text",
                     text |-> IF anthropicContent.text # <<>> THEN anthropicContent.text
                              ELSE JsonRendered(anthropicContent),
                     cache_control |-> (i = cacheBreakpointPos)]
       IN IF block.meta.codecId \notin codecRegistry
          THEN SystemLoop(blocks, codecRegistry, cacheBreakpoint, cacheBreakpointPos, i + 1, messages)
          ELSE SystemLoop(blocks, codecRegistry, cacheBreakpoint, cacheBreakpointPos, i + 1,
                          Append(messages, entry))

\* a plausible slip: every block that matches the selector is a breakpoint
compileSystemMessagesMarkingAll(blocks, codecRegistry, cacheBreakpoint) ==
  LET matches(block) ==
        /\ IsDef(cacheBreakpoint)
        /\ resolveCacheBreakpoint(<<block>>, Val(cacheBreakpoint)).position = 0
      plain == SystemLoop(blocks, codecRegistry, cacheBreakpoint, 0 - 1, 0, <<>>)
      rendered == FilterIdx(blocks, {i \in 1..Len(blocks) : blocks[i].meta.codecId \in codecRegistry}, 1)
  IN [i \in 1..Len(plain) |-> [plain[i] EXCEPT !.cache_control = matches(rendered[i])]]

\* compileSystemMessages(blocks, codecRegistry, cacheBreakpoint?) ; the
\* registry is the set of the codecIds it has a codec for
compileSystemMessages(blocks, codecRegistry, cacheBreakpoint) ==
  LET cacheBreakpointPos ==
        IF IsDef(cacheBreakpoint)
        THEN resolveCacheBreakpoint(blocks, Val(cacheBreakpoint)).position
        ELSE 0 - 1
  IN IF Len(blocks) = 0 THEN <<>>
     ELSE SystemLoop(blocks, codecRegistry, cacheBreakpoint, cacheBreakpointPos, 0, <<>>)

\* what one block adds to the messages of the Anthropic compiler
AnthropicMessagesOf(block) ==
  LET anthropicContent == RenderAnthropic(block)
  IN IF block.meta.kind = "history"
     THEN (IF anthropicContent.shape = "array" THEN anthropicContent.messages ELSE <<>>)
     ELSE IF block.meta.kind = "turn"
     THEN << [role |-> "user",
              content |-> IF anthropicContent.shape = "message"
                          THEN anthropicContent.messages[1].content
                          ELSE JsonRendered(anthropicContent)] >>
     ELSE << [role |-> "user",
              content |-> IF anthropicContent.shape = "string" THEN anthropicContent.text
                          ELSE JsonRendered(anthropicContent)] >>

\* the meta of a compiled context; Date.now() reads `time`
CompiledMeta(policy, time) ==
  [compiledAt |-> time, contextWindow |-> policy.contextWindow,
   completionReserve |-> policy.completionReserve,
   availableTokens |-> policy.contextWindow - policy.completionReserve,
   overflowed |-> FALSE, compacted |-> FALSE, truncated |-> FALSE]

\* the text one system block adds to the Gemini system instruction
GeminiSystemText(block) ==
  LET geminiContent == RenderGemini(block)
  IN IF geminiContent.shape = "string" THEN geminiContent.text ELSE JsonRendered(geminiContent)

\* parts.join('\n\n') ; the separator has the code 17
RECURSIVE JoinParts(_, _)
JoinParts(parts, i) ==
  IF i > Len(parts) THEN <<>>
  ELSE parts[i] \o (IF i < Len(parts) THEN <<17>> ELSE <<>>) \o JoinParts(parts, i + 1)

\* compileSystemInstruction(blocks, codecRegistry): a string or undefined
compileSystemInstruction(blocks, codecRegistry) ==
  LET rendered == FilterIdx(blocks, {i \in 1..Len(blocks) : blocks[i].meta.codecId \in codecRegistry}, 1)
  IN IF Len(blocks) = 0 THEN None
     ELSE Some(JoinParts([i \in 1..Len(rendered) |-> GeminiSystemText(rendered[i])], 1))

\* what one block adds to the messages of the Gemini compiler
GeminiMessagesOf(block) ==
  LET geminiContent == RenderGemini(block)
  IN IF block.meta.kind = "history"
     THEN geminiContent.messages
     ELSE IF block.meta.kind = "turn"
     THEN << [role |-> "user",
              parts |-> IF geminiContent.shape = "message" THEN geminiContent.messages[1].parts
                        ELSE << [text |-> geminiContent.text] >>] >>
     ELSE << [role |-> "user", parts |-> << [text |-> GeminiSystemText(block)] >>] >>

\* what one block adds to the messages of the OpenAI compiler
OpenAIMessagesOf(block) ==
  LET openaiContent == RenderOpenAI(block)
      kind == block.meta.kind
      \* openaiContent.content || openaiContent
      contentOrAll == IF openaiContent.shape = "message" /\ openaiContent.messages[1].content # <<>>
                      THEN openaiContent.messages[1].content
                      ELSE JsonRendered(openaiContent)
      stringified == IF openaiContent.shape = "string" THEN openaiContent.text
                     ELSE JsonRendered(openaiContent)
  IN CASE kind = "pinned" -> << [role |-> "system", content |-> contentOrAll] >>
       [] kind = "history" -> openaiContent.messages
       [] kind = "turn" -> << [role |-> "user", content |-> contentOrAll] >>
       [] kind = "tool_output" -> << [role |-> "tool", content |-> stringified] >>
       [] OTHER -> << [role |-> "user", content |-> stringified] >>

\* the loop of a provider's compileMessages over the message blocks
RECURSIVE MessagesLoop(_, _, _, _, _)
MessagesLoop(blocks, codecRegistry, provider, i, messages) ==
  IF i > Len(blocks) THEN messages
  ELSE IF blocks[i].meta.codecId \notin codecRegistry
  THEN MessagesLoop(blocks, codecRegistry, provider, i + 1, messages)
  ELSE MessagesLoop(blocks, codecRegistry, provider, i + 1,
                    messages \o (CASE provider = "anthropic" -> AnthropicMessagesOf(blocks[i])
                                   [] provider = "openai" -> OpenAIMessagesOf(blocks[i])
                                   [] OTHER -> GeminiMessagesOf(blocks[i])))

\* compileAnthropicContext(blocks, policy, options), options being
\* [codecRegistry, cacheBreakpoint]
compileAnthropicContext(blocks, policy, options, time) ==
  LET systemBlocks == OfKind(blocks, "pinned")
      messageBlocks == NotOfKind(blocks, "pinned")
      systemMessages == compileSystemMessages(systemBlocks, options.codecRegistry,
                                              options.cacheBreakpoint)
  IN [provider |-> "anthropic", modelId |-> policy.modelId,
      messages |-> MessagesLoop(messageBlocks, options.codecRegistry, "anthropic", 1, <<>>),
      system |-> IF Len(systemMessages) > 0 THEN Some(systemMessages) ELSE None,
      estimatedTokens |-> Len(blocks) * 100,
      blocks |-> blocks,
      meta |-> CompiledMeta(policy, time)]

\* the loop of enforceAlternatingRoles and its final flush
RECURSIVE AlternateLoop(_, _, _, _, _)
AlternateLoop(messages, i, currentRole, currentParts, result) ==
  LET flushed == IF IsDef(currentRole) /\ Len(currentParts) > 0
                 THEN Append(result, [role |-> Val(currentRole), parts |-> currentParts])
                 ELSE result
  IN IF i > Len(messages) THEN flushed
     ELSE IF Some(messages[i].role) = currentRole
     THEN AlternateLoop(messages, i + 1, currentRole, currentParts \o messages[i].parts, result)
     ELSE AlternateLoop(messages, i + 1, Some(messages[i].role), messages[i].parts, flushed)

enforceAlternatingRoles(messages) == AlternateLoop(messages, 1, None, <<>>, <<>>)

\* compileGeminiContext(blocks, policy, options), options being [codecRegistry]
compileGeminiContext(blocks, policy, options, time) ==
  LET systemBlocks == OfKind(blocks, "pinned")
      messageBlocks == NotOfKind(blocks, "pinned")
  IN [provider |-> "gemini", modelId |-> policy.modelId,
      messages |-> enforceAlternatingRoles(MessagesLoop(messageBlocks, options.codecRegistry,
                                                        "gemini", 1, <<>>)),
      system |-> compileSystemInstruction(systemBlocks, options.codecRegistry),
      estimatedTokens |-> Len(blocks) * 100,
      blocks |-> blocks,
      meta |-> CompiledMeta(policy, time)]

\* compileOpenAIContext(blocks, policy, options), options being [codecRegistry]
compileOpenAIContext(blocks, policy, options, time) ==
  [provider |-> "openai", modelId |-> policy.modelId,
   messages |-> MessagesLoop(blocks, options.codecRegistry, "openai", 1, <<>>),
   estimatedTokens |-> Len(blocks) * 100,
   blocks |-> blocks,
   meta |-> CompiledMeta(policy, time)]

\* ------------------------------------------------------------------------
\* Specification SpecCompile: block lists compiled for Anthropic and Gemini
\* ------------------------------------------------------------------------

\* the longest block list that is compiled
MaxCompiled == 3

\* system rules that ask for caching themselves, without tags or source
PinnedCacheable ==
  Block(<<7, 1>>, Meta("pinned", "public", "system-rules", 2, None, None),
        [text |-> "other", priority |-> None, cacheable |-> Some(TRUE)])

\* a pinned block of a codec of the caller's own
PinnedOwn ==
  Block(<<7, 2>>, Meta("pinned", "public", "test", 3, Some("s1"), Some(<<"t1">>)), [text |-> "talk"])

Message(role, content) == [role |-> role, content |-> content, error |-> FALSE]

\* a question and its answer
HistoryExchange ==
  Block(<<7, 3>>, Meta("history", "public", "conversation-history", 1, None, None),
        [messages |-> <<Message("user", Text("talk")), Message("assistant", Text("done"))>>])

\* an assistant message whose content is the empty array
HistoryEmptyAnswer ==
  Block(<<7, 4>>, Meta("history", "public", "conversation-history", 2, None, None),
        [messages |-> <<Message("assistant", Parts(<<>>))>>])

\* an assistant message whose content is an array of one part
HistoryAnswer ==
  Block(<<7, 5>>, Meta("history", "public", "conversation-history", 3, None, None),
        [messages |-> <<Message("assistant", Parts(<< [text |-> <<1>>] >>))>>])

UserTurn ==
  Block(<<7, 6>>, Meta("turn", "public", "user-turn", 4, None, None), [text |-> "talk"])

CompilePool ==
  { PinnedPublic, PinnedCacheable, PinnedOwn, StateRestricted, HistoryExchange,
    HistoryEmptyAnswer, HistoryAnswer, UserTurn }

Policy == [provider |-> "anthropic", modelId |-> "gpt-5-nano", contextWindow |-> 8,
           completionReserve |-> 2]

\* registries: every codec, all but the caller's own, none for system rules and turns
Registries ==
  { {"system-rules", "conversation-history", "user-turn", "test"},
    {"system-rules", "conversation-history", "user-turn"},
    {"test", "conversation-history"} }

Selectors ==
  { None,
    Some(Selector(None, None, None, None)),
    Some(Selector(Some("pinned"), None, None, None)),
    Some(Selector(Some("history"), None, None, None)),
    Some(Selector(None, Some("system-rules"), None, None)),
    Some(Selector(None, Some("test"), None, None)),
    Some(Selector(None, None, Some("t1"), None)),
    Some(Selector(Some("pinned"), None, None, Some("s1"))) }

InitCompile ==
  /\ graph = EmptyGraph
  /\ last = NoCall
  /\ \E blocks \in UNION { [1..n -> CompilePool] : n \in 0..MaxCompiled } :
        views = <<ViewOf(blocks)>>
  /\ out = None
  /\ forkOut = None
  /\ compacted = None
  /\ graphA = EmptyGraph
  /\ graphB = EmptyGraph
  /\ pendA = {}
  /\ pendB = {}
  /\ made = {}
  /\ now = 0
  /\ compiled = None
  /\ registry = BUILT_IN_CODECS
  /\ store = EmptyStore
  /\ deadlines = <<>>
  /\ loaded = None

\* compileAnthropicContext(view.blocks, policy, {codecRegistry, cacheBreakpoint})
CompileAnthropic(codecRegistry, cacheBreakpoint) ==
  LET options == [codecRegistry |-> codecRegistry, cacheBreakpoint |-> cacheBreakpoint]
  IN /\ compiled' = Some(compileAnthropicContext(views[1].blocks, Policy, options, now))
     /\ last' = Call("compileAnthropicContext", <<>>, FALSE, 1, Some(options))
     /\ UNCHANGED <<graph, views, out, forkOut, compacted, graphA, graphB, pendA, pendB, made, now, registry, store, deadlines, loaded>>

\* compileGeminiContext(view.blocks, policy, {codecRegistry})
CompileGemini(codecRegistry) ==
  LET options == [codecRegistry |-> codecRegistry]
  IN /\ compiled' = Some(compileGeminiContext(views[1].blocks, Policy, options, now))
     /\ last' = Call("compileGeminiContext", <<>>, FALSE, 1, Some(options))
     /\ UNCHANGED <<graph, views, out, forkOut, compacted, graphA, graphB, pendA, pendB, made, now, registry, store, deadlines, loaded>>

NextCompile ==
  \/ \E codecRegistry \in Registries, cacheBreakpoint \in Selectors :
        CompileAnthropic(codecRegistry, cacheBreakpoint)
  \/ \E codecRegistry \in Registries : CompileGemini(codecRegistry)

SpecCompile == InitCompile /\ [][NextCompile]_vars

\* ---- properties of the compiled contexts ----

\* the compiled system entries of the Anthropic call that has just returned
SystemEntries == OrElse(Val(compiled).system, <<>>)

\* the pinned blocks of the compiled list, in order
PinnedBlocks == OfKind(views[last.parent].blocks, "pinned")

\* the pinned block at position i matches the selector of the call
MatchesSelector(i) ==
  LET selector == Val(Val(last.options).cacheBreakpoint)
      block == PinnedBlocks[i]
  IN /\ IsDef(selector.kind) => block.meta.kind = Val(selector.kind)
     /\ IsDef(selector.codecId) => block.meta.codecId = Val(selector.codecId)
     /\ IsDef(selector.tag) => Val(selector.tag) \in Range(OrElse(block.meta.tags, <<>>))
     /\ IsDef(selector.source) => block.meta.source = selector.source

\* the position in the system array of the entry for the pinned block at i
EntryOf(i) ==
  Cardinality({j \in 1..i : PinnedBlocks[j].meta.codecId \in Val(last.options).codecRegistry})

\* C19: in every Anthropic compilation at most one entry of the compiled
\* system array carries cache_control, and if one does it is the entry for
\* the last pinned block that matches the selector.
C19_OneCacheBreakpoint ==
  last.op = "compileAnthropicContext" =>
    LET marked == {e \in 1..Len(SystemEntries) : SystemEntries[e].cache_control}
    IN /\ Cardinality(marked) <= 1
       /\ \A e \in marked :
            /\ IsDef(Val(last.options).cacheBreakpoint)
            /\ \E i \in 1..Len(PinnedBlocks) :
                 /\ MatchesSelector(i)
                 /\ \A j \in (i + 1)..Len(PinnedBlocks) : ~MatchesSelector(j)
                 /\ PinnedBlocks[i].meta.codecId \in Val(last.options).codecRegistry
                 /\ EntryOf(i) = e

\* three pinned blocks, two of them matching the tag, the first without a
\* codec in the registry: the breakpoint is on the second of two entries
C19_Witness ==
  /\ last.op = "compileAnthropicContext"
  /\ views[1].blocks = <<PinnedOwn, PinnedCacheable, PinnedPublic>>
  /\ Val(last.options).cacheBreakpoint = Some(Selector(None, None, Some("t1"), None))
  /\ "test" \notin Val(last.options).codecRegistry
  /\ Len(SystemEntries) = 2
  /\ ~SystemEntries[1].cache_control
  /\ SystemEntries[2].cache_control

\* C20: in every Gemini compilation, for any sequence of rendered messages
\* (messages with an empty parts list included), no two consecutive messages
\* of the compiled output share a role.
C20_GeminiAlternates ==
  last.op = "compileGeminiContext" =>
    \A i \in 1..(Len(Val(compiled).messages) - 1) :
      Val(compiled).messages[i].role # Val(compiled).messages[i + 1].role

\* ------------------------------------------------------------------------
\* Specification SpecPure: the three compilers called again as time passes
\* ------------------------------------------------------------------------

\* compileOpenAIContext(view.blocks, policy, {codecRegistry})
CompileOpenAI(codecRegistry) ==
  LET options == [codecRegistry |-> codecRegistry]
  IN /\ compiled' = Some(compileOpenAIContext(views[1].blocks, Policy, options, now))
     /\ last' = Call("compileOpenAIContext", <<>>, FALSE, 1, Some(options))
     /\ UNCHANGED <<graph, views, out, forkOut, compacted, graphA, graphB, pendA, pendB, made, now, registry, store, deadlines, loaded>>

\* a second of the wall clock goes by between two calls
Elapse ==
  /\ now < MaxNow
  /\ now' = now + 1
  /\ UNCHANGED <<graph, last, views, out, forkOut, compacted, graphA, graphB, pendA, pendB, made, compiled, registry, store, deadlines, loaded>>

\* the cache breakpoints of the repeated calls: none, and the last pinned block
PureSelectors == {None, Some(Selector(Some("pinned"), None, None, None))}

NextPure ==
  \/ \E codecRegistry \in Registries, cacheBreakpoint \in PureSelectors :
        CompileAnthropic(codecRegistry, cacheBreakpoint)
  \/ \E codecRegistry \in Registries : CompileGemini(codecRegistry)
  \/ \E codecRegistry \in Registries : CompileOpenAI(codecRegistry)
  \/ Elapse

SpecPure == InitCompile /\ [][NextPure]_vars

Compilers == {"compileAnthropicContext", "compileGeminiContext", "compileOpenAIContext"}

\* C21: when a compiler is called again with the blocks, the policy and the
\* options of the call before, at whatever time, the compiled output is the
\* one the call before returned.
C21_CompilersPure ==
  [][(last.op \in Compilers /\ last'.op = last.op /\ last'.options = last.options)
       => compiled' = compiled]_vars

\* ------------------------------------------------------------------------
\* Specification SpecRegistry: codecs registered one after another
\* ------------------------------------------------------------------------

\* the codecs that callers register: two of their own under "custom-test",
\* one under "custom-other", one under the name of a built-in codec and one
\* under a name of Object.prototype
CustomCodecs ==
  { Codec("custom-test", "1.0.0"), Codec("custom-test", "2.0.0"),
    Codec("custom-other", "1.0.0"), Codec("custom-other", "2.0.0"),
    Codec("custom-third", "1.0.0"),
    Codec("system-rules", "9.9.9"), SystemRulesCodec, Codec("toString", "1.0.0") }

InitRegistry ==
  /\ graph = EmptyGraph
  /\ last = NoCall
  /\ Idle

\* registerCodec(codec); the call and whether it threw are kept in `last`
RegisterCodec(codec) ==
  LET r == registerCodec(registry, codec)
  IN /\ registry' = r.registry
     /\ last' = Call("registerCodec", <<>>, r.threw, 0, Some(codec))
     /\ UNCHANGED <<graph, views, out, forkOut, compacted, graphA, graphB, pendA, pendB, made, now,
                    compiled, store, deadlines, loaded>>

NextRegistry == \E codec \in CustomCodecs : RegisterCodec(codec)

SpecRegistry == InitRegistry /\ [][NextRegistry]_vars

\* C22: a registerCodec whose codecId the registry already holds raises and
\* changes nothing, and no step ever changes the codec a codecId maps to, so
\* each codecId maps to the first codec registered under it.
C22_DoubleRegistrationRaises ==
  [][/\ \A i \in 1..Len(registry) :
          getCodec(registry', registry[i][1]) = Some(registry[i][2])
     /\ (last'.op = "registerCodec" /\ HasKey(registry, Val(last'.options).codecId))
          => (last'.existed /\ registry' = registry)]_vars

\* a second codec under "custom-test" was refused, and so was one under the
\* name of a built-in: both names still map to the first codec
C22_Witness ==
  /\ last.op = "registerCodec"
  /\ last.existed
  /\ last.options = Some(Codec("custom-test", "2.0.0"))
  /\ getCodec(registry, "custom-test") = Some(Codec("custom-test", "1.0.0"))
  /\ getCodec(registry, "system-rules") = Some(SystemRulesCodec)
  /\ Len(registry) > Len(BUILT_IN_CODECS)

\* ------------------------------------------------------------------------
\* Specification SpecStore: an InMemoryStore used while the clock runs
\* ------------------------------------------------------------------------
\* `store` is the store, `loaded` what the last read returned.  `deadlines`
\* is a history variable: for each blockHash whose last save passed a ttl,
\* the second at which that ttl is over (the second of the save plus the ttl).
\* A save that found the block and was told not to overwrite stored nothing
\* and is no save of the block.

StorePool == {PinnedPublic, HistoryInternal}

\* ttl: absent, immediate, one second, already over
Ttls == {None, Some(0), Some(1), Some(0 - 1)}

SaveOptionsSet ==
  {None} \cup {Some(SaveOptions(ttl, overwrite)) : ttl \in Ttls, overwrite \in {None, Some(TRUE)}}

QueryOptionsSet ==
  { None,
    Some(QueryOptions(Some([emptyQuery EXCEPT !.kinds = Some(<<"history">>)]), None, None, None)),
    Some(QueryOptions(None, Some(1), Some(1), Some("asc"))) }

InitStore ==
  /\ graph = EmptyGraph
  /\ last = NoCall
  /\ Idle

\* await store.save(block, options)
Save(block, options) ==
  /\ store' = save(store, block, options, now)
  /\ deadlines' = IF HasKey(cleanupExpired(store, now).blocks, block.blockHash)
                     /\ ~(IsDef(options) /\ Val(options).overwrite = Some(TRUE))
                  THEN deadlines
                  ELSE IF IsDef(options) /\ IsDef(Val(options).ttl)
                  THEN MapSet(deadlines, block.blockHash, now + Val(Val(options).ttl))
                  ELSE MapDelete(deadlines, block.blockHash)
  /\ loaded' = None
  /\ last' = Call("save", block.blockHash, HasKey(store.blocks, block.blockHash), 0, options)
  /\ UNCHANGED <<graph, views, out, forkOut, compacted, graphA, graphB, pendA, pendB, made, now,
                 compiled, registry>>

\* await store.load(blockHash): the cleanup it runs stays, its result is kept
Load(blockHash) ==
  LET r == load(store, blockHash, now)
  IN /\ store' = r.store
     /\ loaded' = Some(r.result)
     /\ last' = Call("load", blockHash, FALSE, 0, None)
     /\ UNCHANGED <<graph, views, out, forkOut, compacted, graphA, graphB, pendA, pendB, made, now,
                    compiled, registry, deadlines>>

\* await store.exists(blockHash)
Exists(blockHash) ==
  LET r == exists(store, blockHash, now)
  IN /\ store' = r.store
     /\ loaded' = Some(r.result)
     /\ last' = Call("exists", blockHash, FALSE, 0, None)
     /\ UNCHANGED <<graph, views, out, forkOut, compacted, graphA, graphB, pendA, pendB, made, now,
                    compiled, registry, deadlines>>

\* await store.query(options)
Query(options) ==
  LET r == query(store, options, now)
  IN /\ store' = r.store
     /\ loaded' = Some(r.result)
     /\ last' = Call("query", <<>>, FALSE, 0, options)
     /\ UNCHANGED <<graph, views, out, forkOut, compacted, graphA, graphB, pendA, pendB, made, now,
                    compiled, registry, deadlines>>

\* await store.getStats()
GetStats ==
  LET r == storeStats(store, now)
  IN /\ store' = r.store
     /\ loaded' = Some(r.result)
     /\ last' = Call("getStats", <<>>, FALSE, 0, None)
     /\ UNCHANGED <<graph, views, out, forkOut, compacted, graphA, graphB, pendA, pendB, made, now,
                    compiled, registry, deadlines>>

\* store.getAllBlocks()
GetAllBlocks ==
  LET r == storeAllBlocks(store, now)
  IN /\ store' = r.store
     /\ loaded' = Some(r.result)
     /\ last' = Call("getAllBlocks", <<>>, FALSE, 0, None)
     /\ UNCHANGED <<graph, views, out, forkOut, compacted, graphA, graphB, pendA, pendB, made, now,
                    compiled, registry, deadlines>>

\* await store.delete(blockHash)
Delete(blockHash) ==
  LET r == delete(store, blockHash, now)
  IN /\ store' = r.store
     /\ loaded' = Some(r.result)
     /\ last' = Call("delete", blockHash, FALSE, 0, None)
     /\ UNCHANGED <<graph, views, out, forkOut, compacted, graphA, graphB, pendA, pendB, made, now,
                    compiled, registry, deadlines>>

\* await store.clear(): no cleanup, both Maps emptied
ClearStore ==
  /\ store' = EmptyStore
  /\ loaded' = None
  /\ last' = Call("clear", <<>>, FALSE, 0, None)
  /\ UNCHANGED <<graph, views, out, forkOut, compacted, graphA, graphB, pendA, pendB, made, now,
                 compiled, registry, deadlines>>

NextStore ==
  \/ \E block \in StorePool, options \in SaveOptionsSet : Save(block, options)
  \/ \E block \in StorePool : Load(block.blockHash)
  \/ \E block \in StorePool : Exists(block.blockHash)
  \/ \E options \in QueryOptionsSet : Query(options)
  \/ GetStats
  \/ GetAllBlocks
  \/ \E block \in StorePool : Delete(block.blockHash)
  \/ ClearStore
  \/ Elapse

SpecStore == InitStore /\ [][NextStore]_vars

\* the blockHashes whose ttl, counted from their last save, is over
Overdue == {deadlines[i][1] : i \in {j \in 1..Len(deadlines) : deadlines[j][2] <= now}}

\* what the read that has just returned gave holds no block that is overdue
ExpiredNotRead ==
  /\ last.op = "load" => (last.hash \in Overdue => loaded = Some(None))
  /\ last.op = "exists" => (last.hash \in Overdue => loaded = Some(FALSE))
  /\ last.op \in {"query", "getAllBlocks"} =>
       \A i \in 1..Len(Val(loaded)) : Val(loaded)[i].blockHash \notin Overdue
  /\ last.op = "getStats" =>
       Val(loaded).blockCount =
         Cardinality({i \in 1..Len(store.blocks) : store.blocks[i][1] \notin Overdue})

StoreReads == {"load", "exists", "query", "getStats", "getAllBlocks"}

\* C23: a load, exists, query, getStats or getAllBlocks made when the ttl of
\* a block's last save is over neither returns nor counts that block,
\* whatever the ttl and whatever was done to the store in between.
C23_ExpiredNeverRead ==
  [][(last'.op \in StoreReads /\ now' = now) => ExpiredNotRead']_vars

\* ------------------------------------------------------------------------
\* DefaultSummarizer (pipeline/summarizer of the fork) and SpecSummarize
\* ------------------------------------------------------------------------

\* DEFAULT_SUMMARIZATION_OPTIONS: 'raw_messages', 'full_transcript' and
\* 'raw_history' are written by their initials
DEFAULT_SUMMARIZATION_OPTIONS ==
  [forbiddenFields |-> << <<"r", "m">>, <<"f", "t">>, <<"r", "h">> >>,
   allowedForSummarization |-> <<"public">>]

\* SummarizationOptions {forbiddenFields?, allowedForSummarization?}
SummarizationOptions(forbiddenFields, allowedForSummarization) ==
  [forbiddenFields |-> forbiddenFields, allowedForSummarization |-> allowedForSummarization]

\* a plausible slip: the filter lets every block through
SummarizerFilterKeepingAll(blocks, allowedLevels) == blocks

\* DefaultSummarizer.filterBySensitivity(blocks, allowedLevels)
SummarizerFilter(blocks, allowedLevels) ==
  FilterIdx(blocks, {i \in 1..Len(blocks) : Includes(allowedLevels, blocks[i].meta.sensitivity)}, 1)

\* the content string built for the executor: kind and payload of each block
SummarizerContent(blocks) ==
  [i \in 1..Len(blocks) |-> [kind |-> blocks[i].meta.kind, payload |-> blocks[i].payload]]

\* DefaultSummarizer.summarize(blocks, schema, options) with the executor of
\* the constructor; `content` is what the executor was called with, if it was
summarize(blocks, schema, options, executor, time) ==
  LET allowedLevels ==
        IF IsDef(options)
        THEN OrElse(Val(options).allowedForSummarization,
                    DEFAULT_SUMMARIZATION_OPTIONS.allowedForSummarization)
        ELSE DEFAULT_SUMMARIZATION_OPTIONS.allowedForSummarization
      forbiddenFields ==
        IF IsDef(options)
        THEN OrElse(Val(options).forbiddenFields, DEFAULT_SUMMARIZATION_OPTIONS.forbiddenFields)
        ELSE DEFAULT_SUMMARIZATION_OPTIONS.forbiddenFields
      filteredBlocks == SummarizerFilter(blocks, allowedLevels)
      content == SummarizerContent(filteredBlocks)
      parsed == SchemaParse(schema, executor.output)
      failed(error, called) ==
        [status |-> "raised", error |-> error, result |-> None,
         content |-> IF called THEN Some(content) ELSE None]
  IN IF Len(filteredBlocks) = 0 THEN failed("NoBlocksAfterSensitivityFiltering", FALSE)
     ELSE IF executor.threw THEN failed("ExecutorError", TRUE)
     ELSE IF ~parsed.ok THEN failed("ZodError", TRUE)
     ELSE IF Len(forbiddenFields) > 0 /\ ForbiddenFieldFound(parsed.value, forbiddenFields)
     THEN failed("ForbiddenField", TRUE)
     ELSE [status |-> "returned", error |-> "",
           result |-> Some([summary |-> parsed.value,
                            provenance |-> [derivedFrom |-> [i \in 1..Len(filteredBlocks) |->
                                                               filteredBlocks[i].blockHash],
                                            method |-> "summarize",
                                            version |-> "1.0.0",
                                            snapshotHash |-> Sha256(JoinHashes(filteredBlocks, 1)),
                                            createdAt |-> time],
                            usage |-> executor.usage]),
           content |-> Some(content)]

\* the longest block list that is summarized
MaxSummarized == 3

SummaryPool == {PinnedPublic, StateRestricted, HistoryInternal, HistoryPublic}

\* options absent; the default levels; public and internal; no level at all
SummarizationOptionsSet ==
  { None,
    Some(SummarizationOptions(None, Some(<<"public">>))),
    Some(SummarizationOptions(Some(<<>>), Some(<<"public", "internal">>))),
    Some(SummarizationOptions(None, Some(<<>>))) }

\* the executor throws; returns a clean object; returns an object that
\* holds the initials of 'raw_messages'
SummaryExecutorOutcomes ==
  { ExecutorOutcome(TRUE, None, "done", None, Usage),
    ExecutorOutcome(FALSE, Some(<< <<<<"o", "k">>, <<"f">>>> >>), "done", None, Usage),
    ExecutorOutcome(FALSE, Some(<< <<<<"o", "k">>, <<"r", "m">>>> >>), "done", None, Usage) }

InitSummarize ==
  /\ graph = EmptyGraph
  /\ last = NoCall
  /\ \E blocks \in UNION { [1..n -> SummaryPool] : n \in 0..MaxSummarized } :
        views = <<ViewOf(blocks)>>
  /\ out = None
  /\ forkOut = None
  /\ compacted = None
  /\ graphA = EmptyGraph
  /\ graphB = EmptyGraph
  /\ pendA = {}
  /\ pendB = {}
  /\ made = {}
  /\ now = 0
  /\ compiled = None
  /\ registry = BUILT_IN_CODECS
  /\ store = EmptyStore
  /\ deadlines = <<>>
  /\ loaded = None

\* await summarizer.summarize(view.blocks, schema, options)
SummarizeBlocks(schema, options, executor) ==
  /\ forkOut' = Some(summarize(views[1].blocks, schema, options, executor, now))
  /\ last' = Call("summarize", <<>>, FALSE, 1, options)
  /\ UNCHANGED <<graph, views, out, compacted, graphA, graphB, pendA, pendB, made, now,
                 compiled, registry, store, deadlines, loaded>>

NextSummarize ==
  \E schema \in Schemas, options \in SummarizationOptionsSet, executor \in SummaryExecutorOutcomes :
    SummarizeBlocks(schema, options, executor)

SpecSummarize == InitSummarize /\ [][NextSummarize]_vars

\* the levels the call that has just returned allowed
AllowedLevels ==
  IF IsDef(last.options)
  THEN OrElse(Val(last.options).allowedForSummarization, <<"public">>)
  ELSE <<"public">>

\* the positions of the input blocks whose sensitivity is allowed
AllowedPositions ==
  {i \in 1..Len(views[1].blocks) : views[1].blocks[i].meta.sensitivity \in Range(AllowedLevels)}

\* C24 as stated: a block list that holds a block whose sensitivity is not
\* among the allowed levels makes summarize raise.
C24_NonAllowedInputRaises ==
  (last.op = "summarize" /\ AllowedPositions # 1..Len(views[1].blocks))
    => Val(forkOut).status = "raised"

\* C24 amended: summarize raises, without calling the executor, when no
\* block of the list has an allowed sensitivity; otherwise the blocks
\* outside the allowed levels are left out, and what the executor receives
\* and provenance.derivedFrom hold the allowed blocks only, in order.
C24_NonAllowedInputFiltered ==
  last.op = "summarize" =>
    LET r == Val(forkOut)
        allowed == FilterIdx(views[1].blocks, AllowedPositions, 1)
    IN /\ AllowedPositions = {} =>
            (r.status = "raised" /\ r.error = "NoBlocksAfterSensitivityFiltering"
             /\ r.content = None)
       /\ AllowedPositions # {} =>
            /\ r.content = Some([i \in 1..Len(allowed) |->
                                   [kind |-> allowed[i].meta.kind, payload |-> allowed[i].payload]])
            /\ r.status = "returned" =>
                 Val(r.result).provenance.derivedFrom =
                   [i \in 1..Len(allowed) |-> allowed[i].blockHash]

\* a public block and a restricted one under the default options: a summary
\* is returned, derived from the public block alone
C24_Witness ==
  /\ last.op = "summarize"
  /\ last.options = None
  /\ views[1].blocks = <<PinnedPublic, StateRestricted>>
  /\ IsDef(forkOut) /\ Val(forkOut).status = "returned"
  /\ Val(Val(forkOut).result).provenance.derivedFrom = <<HashA>>

\* only restricted input under the default options: the call has raised
C24_WitnessRaised ==
  /\ last.op = "summarize"
  /\ views[1].blocks = <<StateRestricted>>
  /\ IsDef(forkOut) /\ Val(forkOut).status = "raised"
  /\ Val(forkOut).error = "NoBlocksAfterSensitivityFiltering"

\* ------------------------------------------------------------------------
\* The reports and the block lists of compactView (specification SpecCompact)
\* ------------------------------------------------------------------------

\* the view that was compacted and the estimator that was passed
CompactedView == views[last.parent]

CompactEstimator == Val(last.options).estimator

\* C25: the report of a tool_output_prune step has lossy = true exactly when
\* the step replaced a block by a truncated successor or removed a block.
C25_PruneLossyIffChanged ==
  RanOnly("tool_output_prune") =>
    LET report == Compaction.report.stepReports[1]
        removal == Len(Compaction.removedBlocks) > 0
        replacement == \E i \in 1..Len(Compaction.blocks) :
                         Compaction.blocks[i] \notin Range(CompactedView.blocks)
    IN report.lossy <=> (replacement \/ removal)

\* C26: in every report beforeTokens is the estimator's estimate of the
\* blocks of the input view, afterTokens its estimate of the returned blocks
\* and savedTokens their difference, with or without a tokenEstimate in the view.
C26_ReportReestimates ==
  CompactReturned =>
    LET report == Compaction.report
    IN /\ report.beforeTokens = estimate(CompactEstimator, CompactedView.blocks).tokens
       /\ report.afterTokens = estimate(CompactEstimator, Compaction.blocks).tokens
       /\ report.savedTokens = report.beforeTokens - report.afterTokens

\* kindOrder never decreases from one block to the next
InKindOrder(blocks) ==
  \A i \in 1..(Len(blocks) - 1) :
    getKindIndex(blocks[i].meta.kind) <= getKindIndex(blocks[i + 1].meta.kind)

\* C28: whatever the steps, the blocks that compactView returns for a view
\* in kind order are in kind order.
C28_CompactionKeepsKindOrder ==
  (CompactReturned /\ InKindOrder(CompactedView.blocks)) => InKindOrder(Compaction.blocks)

\* C29: every block of the input view that is not among the returned blocks
\* is in removedBlocks, and removedBlocks is as long as the blocksRemoved of
\* the step reports add up to.
C29_EveryBlockAccounted ==
  CompactReturned =>
    LET reports == Compaction.report.stepReports
        removedUpTo[i \in 0..Len(reports)] ==
          IF i = 0 THEN 0 ELSE removedUpTo[i - 1] + reports[i].blocksRemoved
    IN /\ \A i \in 1..Len(CompactedView.blocks) :
            \/ CompactedView.blocks[i] \in Range(Compaction.blocks)
            \/ CompactedView.blocks[i] \in Range(Compaction.removedBlocks)
       /\ Len(Compaction.removedBlocks) = removedUpTo[Len(reports)]

\* ------------------------------------------------------------------------
\* Specification SpecBudget: views created from queries that carry maxTokens
\* ------------------------------------------------------------------------

\* the queries that are given to createView, alone or merged
BudgetQueries ==
  { emptyQuery,
    [emptyQuery EXCEPT !.maxTokens = Some(1)],
    [emptyQuery EXCEPT !.kinds = Some(<<"history">>), !.maxTokens = Some(2)],
    [emptyQuery EXCEPT !.maxTokens = Some(5)] }

BudgetQueryLists == UNION { [1..n -> BudgetQueries] : n \in 1..MaxQueries }

\* graph.createView({query: mergeQueries(...queries), tokenEstimator})
CreateBudgetedView(queries, estimator) ==
  LET options == ViewOptions(Some(mergeQueries(queries)), Some(estimator), None)
  IN /\ out' = Some(createContextView(graph, options))
     /\ last' = Call("createView", <<>>, FALSE, 0, Some(options))
     /\ forkOut' = None
     /\ compacted' = None
     /\ UNCHANGED <<graph, views, graphA, graphB, pendA, pendB, made, now, compiled, registry, store, deadlines, loaded>>

NextBudget ==
  \/ \E block \in QueryPool : AddBlock(block, QueryEdgeArgs(block))
  \/ \E queries \in BudgetQueryLists, estimator \in Estimators :
       CreateBudgetedView(queries, estimator)

SpecBudget == InitView /\ [][NextBudget]_vars

\* C27: when createView is given an estimator and a query that carries
\* maxTokens, the estimates of the blocks of the view add up to at most that
\* maxTokens.
C27_QueryMaxTokensApplied ==
  (/\ last.op = "createView"
   /\ IsDef(Val(last.options).tokenEstimator)
   /\ IsDef(Val(last.options).query)
   /\ IsDef(Val(Val(last.options).query).maxTokens))
    => TokenSum(Val(Val(last.options).tokenEstimator), Val(out).blocks)
         <= Val(Val(Val(last.options).query).maxTokens)

\* ------------------------------------------------------------------------
\* What a fork keeps of the sensitive blocks (specification SpecFork)
\* ------------------------------------------------------------------------

ForkMaximum(options) == OrElse(options.maxSensitivity, "public")

\* a block of the parent view at or below the maximum, handed on as it is
PassedOn(block, parent, options) ==
  \E k \in 1..Len(parent) : parent[k] = block /\ ~Above(parent[k], options)

\* a stub that holds the blockHash of a parent block above the maximum, the
\* reason and the placeholder, and no other payload field
StubOnly(block, parent, options) ==
  /\ block.meta.codecId = "redacted-stub"
  /\ DOMAIN block.payload = {"originalBlockHash", "reason", "placeholder"}
  /\ block.payload.placeholder = Some("[REDACTED - Sensitive content removed]")
  /\ \E k \in 1..Len(parent) :
       /\ Above(parent[k], options)
       /\ block.payload.originalBlockHash = parent[k].blockHash
       /\ block.payload.reason = [level |-> parent[k].meta.sensitivity,
                                  max |-> ForkMaximum(options)]

\* C30: every block of the view that createFork returns has a sensitivity at
\* or below maxSensitivity (public when not given), no parent block above the
\* maximum is among them, and each of them is either a parent block at or
\* below the maximum or a stub that holds of a parent block above it the
\* blockHash and nothing of the payload.
C30_NoSensitiveBlockSurvives ==
  last.op = "createFork" =>
    LET parent == views[last.parent].blocks
        fork == Val(out).blocks
        options == Val(last.options)
    IN /\ \A j \in 1..Len(fork) :
            /\ SENSITIVITY_ORDER[fork[j].meta.sensitivity]
                 <= SENSITIVITY_ORDER[ForkMaximum(options)]
            /\ PassedOn(fork[j], parent, options) \/ StubOnly(fork[j], parent, options)
       /\ \A i \in 1..Len(parent) :
            Above(parent[i], options) => parent[i] \notin Range(fork)

\* a fork with the maximum internal of a view that holds a restricted and an
\* internal block: the one is a stub in the fork, the other is handed on
C30_Witness ==
  /\ last.op = "createFork"
  /\ Val(last.options).maxSensitivity = Some("internal")
  /\ Val(last.options).includeHistory = Some(TRUE)
  /\ Val(last.options).includeState = Some(TRUE)
  /\ StateRestricted \in Range(views[last.parent].blocks)
  /\ HistoryInternal \in Range(views[last.parent].blocks)
  /\ HistoryInternal \in Range(Val(out).blocks)
  /\ \E j \in 1..Len(Val(out).blocks) : IsStubOf(Val(out).blocks[j], StateRestricted)
  /\ Len(Val(out).blocks) = Len(views[last.parent].blocks)

====
